---------------------------- MODULE Spec2Model ----------------------------
(***************************************************************************)
(* The list engine of blackwidow (src/src/redis_lists.cc) over an ordered  *)
(* key/value backend with two column families: the meta column family      *)
(* (handles_[0]), one record per list key, and the data column family      *)
(* (handles_[1]), one record per element under (key, version, index).      *)
(*                                                                         *)
(* Every engine operation Xxx of the source is an operator                 *)
(*   Xxx(m, d, t, arguments)                                               *)
(* computed as the code computes it from the meta column family m, the     *)
(* data column family d and the wall clock t; it yields the returned       *)
(* status, the output parameter and the two column families as the call    *)
(* leaves them.  The action of the same name with the suffix Call applies  *)
(* it to the store.                                                        *)
(*                                                                         *)
(* Logical indices are 64-bit unsigned numbers around 2^63.  They are      *)
(* written here as their signed distance from 2^63, which keeps every sum, *)
(* difference and unsigned comparison of the code as long as the distance  *)
(* stays far below 2^63, as it does within the bounds of the model.        *)
(***************************************************************************)
EXTENDS Integers, Sequences, FiniteSets, TLC

VARIABLES meta, data, now, last, nops, th, lock, hist

vars == <<meta, data, now, last, nops, th, lock, hist>>

-----------------------------------------------------------------------------
(* Bounds of the model *)

\* committed writes in one behaviour
MaxOps == 2
\* values handed to one LPush / RPush
MaxPush == 3
\* magnitude of the index arguments (start, stop, index, count)
MaxArg == 4
\* the wall clock runs from 1 to MaxTime
MaxTime == 2

\* user keys, in their byte order
Keys == {1, 2}

\* element payloads, as byte strings; <<2, 0>> holds an embedded zero byte
Payloads == {<<1>>, <<2, 0>>}

\* the pivots of LInsert and the targets of LRem: the payloads, and <<2>>,
\* which no element equals and which <<2, 0>> extends
Needles == Payloads \cup {<<2>>}

RECURSIVE SeqsUpTo(_, _)
SeqsUpTo(S, n) ==
    IF n = 0 THEN {<<>>}
    ELSE LET shorter == SeqsUpTo(S, n - 1)
         IN  shorter \cup {Append(s, x) : s \in {q \in shorter : Len(q) = n - 1}, x \in S}

PushValues == SeqsUpTo(Payloads, MaxPush) \ {<<>>}

IndexArgs == (0 - MaxArg) .. MaxArg

TTLs == {0, 1}

BeforeOrAfter == {"Before", "After"}

-----------------------------------------------------------------------------
(* Meta value (ListsMetaValue / ParsedListsMetaValue of                     *)
(* src/lists_meta_value_format.h, which is not among the source files)      *)

InitalLeftIndex == -1

InitalRightIndex == 0

IsStale(pm, t) ==
    \/ pm.timestamp # 0 /\ pm.timestamp <= t
    \/ pm.count = 0

UpdateVersion(pm) == [pm EXCEPT !.version = pm.version + 1]

InitialMetaValue(pm) ==
    UpdateVersion([pm EXCEPT !.count = 0,
                             !.left_index = InitalLeftIndex,
                             !.right_index = InitalRightIndex,
                             !.timestamp = 0])

ListsMetaValue(n) ==
    [count |-> n, version |-> 0, left_index |-> InitalLeftIndex,
     right_index |-> InitalRightIndex, timestamp |-> 0]

ModifyCount(pm, delta) == [pm EXCEPT !.count = pm.count + delta]

ModifyLeftIndex(pm, index) == [pm EXCEPT !.left_index = pm.left_index - index]

ModifyRightIndex(pm, index) == [pm EXCEPT !.right_index = pm.right_index + index]

SetRelativeTimestamp(pm, ttl, t) == [pm EXCEPT !.timestamp = t + ttl]

-----------------------------------------------------------------------------
(* The backend: point reads, write batches, ordered iteration *)

ListsDataKey(key, version, index) == <<key, version, index>>

\* order of the data column family (ListsDataKeyComparator)
KeyLess(a, b) ==
    \/ a[1] < b[1]
    \/ a[1] = b[1] /\ a[2] < b[2]
    \/ a[1] = b[1] /\ a[2] = b[2] /\ a[3] < b[3]

\* db_->Get on the data column family
HasData(d, dk) == dk \in DOMAIN d

\* an iterator is the data key it stands on, or End when it is not Valid()
End == <<>>

Lowest(S) == IF S = {} THEN End ELSE CHOOSE x \in S : \A y \in S : ~KeyLess(y, x)

Highest(S) == IF S = {} THEN End ELSE CHOOSE x \in S : \A y \in S : ~KeyLess(x, y)

Seek(d, target) == Lowest({x \in DOMAIN d : ~KeyLess(x, target)})

IterNext(d, it) == Lowest({x \in DOMAIN d : KeyLess(it, x)})

IterPrev(d, it) == Highest({x \in DOMAIN d : KeyLess(x, it)})

\* WriteBatch::Put / WriteBatch::Delete, as entries of a batch
Put(cf, key, value) == [type |-> "Put", cf |-> cf, key |-> key, value |-> value]

Delete(cf, key) == [type |-> "Delete", cf |-> cf, key |-> key, value |-> <<>>]

PutFn(f, key, value) == [x \in DOMAIN f \cup {key} |-> IF x = key THEN value ELSE f[x]]

DeleteFn(f, key) == [x \in DOMAIN f \ {key} |-> f[x]]

ApplyEntry(store, e) ==
    IF e.cf = 0
    THEN [store EXCEPT !.meta = IF e.type = "Put" THEN PutFn(store.meta, e.key, e.value)
                                ELSE DeleteFn(store.meta, e.key)]
    ELSE [store EXCEPT !.data = IF e.type = "Put" THEN PutFn(store.data, e.key, e.value)
                                ELSE DeleteFn(store.data, e.key)]

\* db_->Write: the entries of the batch take effect together, in batch order
RECURSIVE Write(_, _)
Write(store, batch) ==
    IF batch = <<>> THEN store
    ELSE Write(ApplyEntry(store, Head(batch)), Tail(batch))

\* what a call returns and leaves behind
Result(status, ret, m, d) == [status |-> status, ret |-> ret, meta |-> m, data |-> d]

Committed(status, ret, m, d, batch) ==
    LET store == Write([meta |-> m, data |-> d], batch)
    IN  Result(status, ret, store.meta, store.data)


\* the output parameter of a call: Unset when the call did not write it,
\* Out(x) when it wrote x
Unset == <<>>

Out(x) == <<x>>

\* db_->Get on the meta column family found a record
Found(m, key) == key \in DOMAIN m

-----------------------------------------------------------------------------
(* LPush, RPush *)

\* LPushLoop as it would be if it wrote each value at the new left_index
RECURSIVE LPushLoopAtNewIndex(_, _, _, _, _, _)
LPushLoopAtNewIndex(key, version, values, pm, batch, delta) ==
    IF values = <<>> THEN [pm |-> pm, batch |-> batch]
    ELSE LET pm1   == ModifyCount(ModifyLeftIndex(pm, 1), delta)
             index == pm1.left_index
         IN  LPushLoopAtNewIndex(key, version, Tail(values), pm1,
                       Append(batch, Put(1, ListsDataKey(key, version, index), Head(values))),
                       delta)

\* the loop over the values; delta is 1 where the loop also calls ModifyCount(1)
RECURSIVE LPushLoop(_, _, _, _, _, _)
LPushLoop(key, version, values, pm, batch, delta) ==
    IF values = <<>> THEN [pm |-> pm, batch |-> batch]
    ELSE LET index == pm.left_index
             pm1   == ModifyCount(ModifyLeftIndex(pm, 1), delta)
         IN  LPushLoop(key, version, Tail(values), pm1,
                       Append(batch, Put(1, ListsDataKey(key, version, index), Head(values))),
                       delta)

LPush(m, d, t, key, values) ==
    IF Found(m, key)
    THEN LET pm0 == IF IsStale(m[key], t) THEN InitialMetaValue(m[key]) ELSE m[key]
             l   == LPushLoop(key, pm0.version, values, pm0, <<>>, 1)
         IN  Committed("OK", Out(l.pm.count), m, d, Append(l.batch, Put(0, key, l.pm)))
    ELSE LET pm0 == UpdateVersion(ListsMetaValue(Len(values)))
             l   == LPushLoop(key, pm0.version, values, pm0, <<>>, 0)
         IN  Committed("OK", Out(l.pm.right_index - l.pm.left_index - 1), m, d,
                       Append(l.batch, Put(0, key, l.pm)))

\* RPushLoop as it would be if it wrote each value at the new right_index
RECURSIVE RPushLoopAtNewIndex(_, _, _, _, _, _)
RPushLoopAtNewIndex(key, version, values, pm, batch, delta) ==
    IF values = <<>> THEN [pm |-> pm, batch |-> batch]
    ELSE LET pm1   == ModifyCount(ModifyRightIndex(pm, 1), delta)
             index == pm1.right_index
         IN  RPushLoopAtNewIndex(key, version, Tail(values), pm1,
                       Append(batch, Put(1, ListsDataKey(key, version, index), Head(values))),
                       delta)

RECURSIVE RPushLoop(_, _, _, _, _, _)
RPushLoop(key, version, values, pm, batch, delta) ==
    IF values = <<>> THEN [pm |-> pm, batch |-> batch]
    ELSE LET index == pm.right_index
             pm1   == ModifyCount(ModifyRightIndex(pm, 1), delta)
         IN  RPushLoop(key, version, Tail(values), pm1,
                       Append(batch, Put(1, ListsDataKey(key, version, index), Head(values))),
                       delta)

RPush(m, d, t, key, values) ==
    IF Found(m, key)
    THEN LET pm0 == IF IsStale(m[key], t) THEN InitialMetaValue(m[key]) ELSE m[key]
             l   == RPushLoop(key, pm0.version, values, pm0, <<>>, 1)
         IN  Committed("OK", Out(l.pm.count), m, d, Append(l.batch, Put(0, key, l.pm)))
    ELSE LET pm0 == [UpdateVersion(ListsMetaValue(Len(values))) EXCEPT !.timestamp = 0]
             l   == RPushLoop(key, pm0.version, values, pm0, <<>>, 0)
         IN  Committed("OK", Out(l.pm.right_index - l.pm.left_index - 1), m, d,
                       Append(l.batch, Put(0, key, l.pm)))

-----------------------------------------------------------------------------
(* LRange, LTrim, LLen *)

\* index >= 0 ? left_index + index + 1 : right_index + index
Translate(pm, index) ==
    IF index >= 0 THEN pm.left_index + index + 1 ELSE pm.right_index + index

\* for (iter->Seek(start); iter->Valid() && start_index <= stop_index;
\*      iter->Next(), start_index++) ret->push_back(iter->value())
RECURSIVE ScanForward(_, _, _, _, _)
ScanForward(d, iter, start_index, stop_index, ret) ==
    IF iter # End /\ start_index <= stop_index
    THEN ScanForward(d, IterNext(d, iter), start_index + 1, stop_index,
                     Append(ret, d[iter]))
    ELSE ret

\* LRange as it would be without the clamp of start_index to left_index + 1
LRangeNoStartClamp(m, d, t, key, start, stop) ==
    IF ~Found(m, key) THEN Result("NotFound", Out(<<>>), m, d)
    ELSE LET pm == m[key] IN
         IF IsStale(pm, t) THEN Result("NotFound", Out(<<>>), m, d)
         ELSE IF pm.count = 0 THEN Result("NotFound", Out(<<>>), m, d)
         ELSE LET start_index == Translate(pm, start)
                  stop_index  == Translate(pm, stop)
              IN  IF start_index > stop_index THEN Result("OK", Out(<<>>), m, d)
                  ELSE LET stop1  == IF stop_index >= pm.right_index
                                     THEN pm.right_index - 1 ELSE stop_index
                           iter   == Seek(d, ListsDataKey(key, pm.version, start_index))
                       IN  Result("OK", Out(ScanForward(d, iter, start_index, stop1, <<>>)), m, d)

LRange(m, d, t, key, start, stop) ==
    IF ~Found(m, key) THEN Result("NotFound", Out(<<>>), m, d)
    ELSE LET pm == m[key] IN
         IF IsStale(pm, t) THEN Result("NotFound", Out(<<>>), m, d)
         ELSE IF pm.count = 0 THEN Result("NotFound", Out(<<>>), m, d)
         ELSE LET start_index == Translate(pm, start)
                  stop_index  == Translate(pm, stop)
              IN  IF start_index > stop_index THEN Result("OK", Out(<<>>), m, d)
                  ELSE LET start1 == IF start_index <= pm.left_index
                                     THEN pm.left_index + 1 ELSE start_index
                           stop1  == IF stop_index >= pm.right_index
                                     THEN pm.right_index - 1 ELSE stop_index
                           iter   == Seek(d, ListsDataKey(key, pm.version, start1))
                       IN  Result("OK", Out(ScanForward(d, iter, start1, stop1, <<>>)), m, d)

\* return RPush(key, values, &count): count is a local of LTrim
LTrimPush(m, d, t, key, values) ==
    LET r == RPush(m, d, t, key, values)
    IN  Result(r.status, Unset, r.meta, r.data)

\* the critical section of LTrim (the block under ScopeRecordLock): returned
\* says that LTrim returns from inside it; otherwise meta is the meta column
\* family as the block leaves it and values are the payloads it collected
LTrimInner(m, d, t, key, start, stop) ==
    IF ~Found(m, key)
    THEN [returned |-> FALSE, status |-> "NotFound", meta |-> m, values |-> <<>>]
    ELSE LET pm == m[key] IN
         IF IsStale(pm, t)
         THEN [returned |-> TRUE, status |-> "OK", meta |-> m, values |-> <<>>]
         ELSE LET start_index == Translate(pm, start)
                  stop_index  == Translate(pm, stop)
              IN  IF start_index > stop_index
                  THEN [returned |-> TRUE, status |-> "OK", meta |-> m, values |-> <<>>]
                  ELSE LET stop1  == IF stop_index >= pm.right_index
                                     THEN pm.right_index - 1 ELSE stop_index
                           m1     == PutFn(m, key, InitialMetaValue(pm))
                           iter   == Seek(d, ListsDataKey(key, pm.version, start_index))
                           values == ScanForward(d, iter, start_index, stop1, <<>>)
                       IN  [returned |-> FALSE, status |-> "OK", meta |-> m1,
                            values |-> values]

LTrim(m, d, t, key, start, stop) ==
    LET inner == LTrimInner(m, d, t, key, start, stop)
    IN  IF inner.returned THEN Result(inner.status, Unset, m, d)
        ELSE LTrimPush(inner.meta, d, t, key, inner.values)

LLen(m, d, t, key) ==
    IF ~Found(m, key) THEN Result("NotFound", Unset, m, d)
    ELSE LET pm == m[key] IN
         IF IsStale(pm, t) THEN Result("NotFound", Out(0), m, d)
         ELSE IF pm.count = 0 THEN Result("NotFound", Out(0), m, d)
         ELSE Result("OK", Out(pm.count), m, d)

-----------------------------------------------------------------------------
(* LPop, RPop, LIndex *)

LPop(m, d, t, key) ==
    IF ~Found(m, key) THEN Result("NotFound", Unset, m, d)
    ELSE LET pm == m[key] IN
         IF IsStale(pm, t) THEN Result("NotFound", Unset, m, d)
         ELSE IF pm.count = 0 THEN Result("NotFound", Unset, m, d)
         ELSE LET first_node_index == pm.left_index + 1
                  lists_data_key   == ListsDataKey(key, pm.version, first_node_index)
              IN  IF HasData(d, lists_data_key)
                  THEN LET pm1 == ModifyLeftIndex(ModifyCount(pm, -1), -1)
                       IN  Committed("OK", Out(d[lists_data_key]), m, d,
                                     <<Delete(1, lists_data_key), Put(0, key, pm1)>>)
                  ELSE Result("NotFound", Unset, m, d)

\* RPop as it would be if it moved the left cursor, as LPop does
RPopMovesLeftCursor(m, d, t, key) ==
    IF ~Found(m, key) THEN Result("NotFound", Unset, m, d)
    ELSE LET pm == m[key] IN
         IF IsStale(pm, t) THEN Result("NotFound", Unset, m, d)
         ELSE IF pm.count = 0 THEN Result("NotFound", Unset, m, d)
         ELSE LET last_node_index == pm.right_index - 1
                  lists_data_key  == ListsDataKey(key, pm.version, last_node_index)
              IN  IF HasData(d, lists_data_key)
                  THEN LET pm1 == ModifyLeftIndex(ModifyCount(pm, -1), -1)
                       IN  Committed("OK", Out(d[lists_data_key]), m, d,
                                     <<Delete(1, lists_data_key), Put(0, key, pm1)>>)
                  ELSE Result("NotFound", Unset, m, d)

RPop(m, d, t, key) ==
    IF ~Found(m, key) THEN Result("NotFound", Unset, m, d)
    ELSE LET pm == m[key] IN
         IF IsStale(pm, t) THEN Result("NotFound", Unset, m, d)
         ELSE IF pm.count = 0 THEN Result("NotFound", Unset, m, d)
         ELSE LET last_node_index == pm.right_index - 1
                  lists_data_key  == ListsDataKey(key, pm.version, last_node_index)
              IN  IF HasData(d, lists_data_key)
                  THEN LET pm1 == ModifyRightIndex(ModifyCount(pm, -1), -1)
                       IN  Committed("OK", Out(d[lists_data_key]), m, d,
                                     <<Delete(1, lists_data_key), Put(0, key, pm1)>>)
                  ELSE Result("NotFound", Unset, m, d)

LIndex(m, d, t, key, index) ==
    IF ~Found(m, key) THEN Result("NotFound", Unset, m, d)
    ELSE LET pm == m[key] IN
         IF IsStale(pm, t) THEN Result("NotFound", Unset, m, d)
         ELSE IF pm.count = 0 THEN Result("NotFound", Unset, m, d)
         ELSE LET positive_direction_index == Translate(pm, index)
                  lists_data_key == ListsDataKey(key, pm.version, positive_direction_index)
              IN  IF HasData(d, lists_data_key)
                  THEN Result("OK", Out(d[lists_data_key]), m, d)
                  ELSE Result("NotFound", Unset, m, d)

-----------------------------------------------------------------------------
(* Payload comparison of LInsert and LRem: strcmp on the data() of the two   *)
(* strings, which reads each up to its first zero byte                       *)

RECURSIVE CStr(_)
CStr(p) == IF p = <<>> \/ Head(p) = 0 THEN <<>> ELSE <<Head(p)>> \o CStr(Tail(p))

StrcmpEq(a, b) == CStr(a) = CStr(b)

-----------------------------------------------------------------------------
(* LInsert *)

\* the search for the pivot: find_pivot and pivot_index as the loop leaves them
RECURSIVE FindPivot(_, _, _, _, _)
FindPivot(d, iter, current_index, right_index, pivot) ==
    IF iter # End /\ current_index < right_index
    THEN IF StrcmpEq(d[iter], pivot)
         THEN [find_pivot |-> TRUE, pivot_index |-> current_index]
         ELSE FindPivot(d, IterNext(d, iter), current_index + 1, right_index, pivot)
    ELSE [find_pivot |-> FALSE, pivot_index |-> 0]

\* the nodes left of the pivot, with the pivot itself when inserting after it
RECURSIVE FirstHalfNodes(_, _, _, _, _, _)
FirstHalfNodes(d, iter, current_index, pivot_index, before_or_after, list_nodes) ==
    IF iter # End /\ current_index <= pivot_index
    THEN IF current_index = pivot_index
         THEN IF before_or_after = "After" THEN Append(list_nodes, d[iter]) ELSE list_nodes
         ELSE FirstHalfNodes(d, IterNext(d, iter), current_index + 1, pivot_index,
                             before_or_after, Append(list_nodes, d[iter]))
    ELSE list_nodes

\* the nodes from the pivot to the tail, without the pivot when inserting after it
RECURSIVE AfterHalfNodes(_, _, _, _, _, _, _)
AfterHalfNodes(d, iter, current_index, pivot_index, right_index, before_or_after, list_nodes) ==
    IF iter # End /\ current_index < right_index
    THEN AfterHalfNodes(d, IterNext(d, iter), current_index + 1, pivot_index, right_index,
                        before_or_after,
                        IF current_index = pivot_index /\ before_or_after = "After"
                        THEN list_nodes ELSE Append(list_nodes, d[iter]))
    ELSE list_nodes

\* PutNodes as it would be if it started one slot too far
PutNodesOneOff(key, version, current_index, list_nodes) ==
    [i \in 1 .. Len(list_nodes) |->
        Put(1, ListsDataKey(key, version, current_index + i), list_nodes[i])]

\* batch.Put of the nodes at current_index, current_index + 1, ...
PutNodes(key, version, current_index, list_nodes) ==
    [i \in 1 .. Len(list_nodes) |->
        Put(1, ListsDataKey(key, version, current_index + i - 1), list_nodes[i])]

LInsert(m, d, t, key, before_or_after, pivot, value) ==
    IF ~Found(m, key) THEN Result("NotFound", Out(0), m, d)
    ELSE LET pm == m[key] IN
         IF IsStale(pm, t) THEN Result("NotFound", Out(0), m, d)
         ELSE IF pm.count = 0 THEN Result("NotFound", Out(0), m, d)
         ELSE LET version     == pm.version
                  found       == FindPivot(d, Seek(d, ListsDataKey(key, version, pm.left_index + 1)),
                                           pm.left_index + 1, pm.right_index, pivot)
                  pivot_index == found.pivot_index
              IN  IF ~found.find_pivot THEN Result("NotFound", Out(-1), m, d)
                  ELSE LET mid_index == pm.left_index + (pm.right_index - pm.left_index) \div 2 IN
                       IF pivot_index <= mid_index
                       THEN LET target_index == IF before_or_after = "Before"
                                                THEN pivot_index - 1 ELSE pivot_index
                                list_nodes == FirstHalfNodes(d,
                                                  Seek(d, ListsDataKey(key, version, pm.left_index + 1)),
                                                  pm.left_index + 1, pivot_index, before_or_after, <<>>)
                                pm1 == ModifyCount(ModifyLeftIndex(pm, 1), 1)
                            IN  Committed("OK", Out(pm1.count), m, d,
                                    PutNodes(key, version, pm.left_index, list_nodes)
                                    \o <<Put(0, key, pm1),
                                         Put(1, ListsDataKey(key, version, target_index), value)>>)
                       ELSE LET target_index == IF before_or_after = "Before"
                                                THEN pivot_index ELSE pivot_index + 1
                                list_nodes == AfterHalfNodes(d,
                                                  Seek(d, ListsDataKey(key, version, pivot_index)),
                                                  pivot_index, pivot_index, pm.right_index,
                                                  before_or_after, <<>>)
                                pm1 == ModifyCount(ModifyRightIndex(pm, 1), 1)
                            IN  Committed("OK", Out(pm1.count), m, d,
                                    PutNodes(key, version, target_index + 1, list_nodes)
                                    \o <<Put(0, key, pm1),
                                         Put(1, ListsDataKey(key, version, target_index), value)>>)

-----------------------------------------------------------------------------
(* LPushx, RPushx *)

\* LPushx as it would be without ModifyCount(1)
LPushxNoCount(m, d, t, key, value) ==
    IF ~Found(m, key) THEN Result("NotFound", Unset, m, d)
    ELSE LET pm == m[key] IN
         IF IsStale(pm, t) THEN Result("NotFound", Unset, m, d)
         ELSE IF pm.count = 0 THEN Result("NotFound", Unset, m, d)
         ELSE LET index == pm.left_index
                  pm1   == ModifyLeftIndex(pm, 1)
              IN  Committed("OK", Out(pm1.count), m, d,
                            <<Put(0, key, pm1),
                              Put(1, ListsDataKey(key, pm.version, index), value)>>)

LPushx(m, d, t, key, value) ==
    IF ~Found(m, key) THEN Result("NotFound", Unset, m, d)
    ELSE LET pm == m[key] IN
         IF IsStale(pm, t) THEN Result("NotFound", Unset, m, d)
         ELSE IF pm.count = 0 THEN Result("NotFound", Unset, m, d)
         ELSE LET index == pm.left_index
                  pm1   == ModifyLeftIndex(ModifyCount(pm, 1), 1)
              IN  Committed("OK", Out(pm1.count), m, d,
                            <<Put(0, key, pm1),
                              Put(1, ListsDataKey(key, pm.version, index), value)>>)

\* RPushx as it would be if it created the list of a missing key
RPushxCreates(m, d, t, key, value) ==
    IF ~Found(m, key) THEN RPush(m, d, t, key, <<value>>)
    ELSE LET pm == m[key] IN
         IF IsStale(pm, t) THEN Result("NotFound", Unset, m, d)
         ELSE IF pm.count = 0 THEN Result("NotFound", Unset, m, d)
         ELSE LET index == pm.right_index
                  pm1   == ModifyRightIndex(ModifyCount(pm, 1), 1)
              IN  Committed("OK", Out(pm1.count), m, d,
                            <<Put(0, key, pm1),
                              Put(1, ListsDataKey(key, pm.version, index), value)>>)

RPushx(m, d, t, key, value) ==
    IF ~Found(m, key) THEN Result("NotFound", Unset, m, d)
    ELSE LET pm == m[key] IN
         IF IsStale(pm, t) THEN Result("NotFound", Unset, m, d)
         ELSE IF pm.count = 0 THEN Result("NotFound", Unset, m, d)
         ELSE LET index == pm.right_index
                  pm1   == ModifyRightIndex(ModifyCount(pm, 1), 1)
              IN  Committed("OK", Out(pm1.count), m, d,
                            <<Put(0, key, pm1),
                              Put(1, ListsDataKey(key, pm.version, index), value)>>)

-----------------------------------------------------------------------------
(* LRem *)

\* CollectForward as it would be if the scan did not stop at stop_index
RECURSIVE CollectForwardPastStop(_, _, _, _, _, _, _, _)
CollectForwardPastStop(d, iter, current_index, stop_index, count, rest, value, del_index) ==
    IF iter # End /\ (count = 0 \/ rest # 0)
    THEN LET hit == StrcmpEq(d[iter], value)
         IN  CollectForwardPastStop(d, IterNext(d, iter), current_index + 1, stop_index, count,
                            IF hit /\ count # 0 THEN rest - 1 ELSE rest, value,
                            IF hit THEN Append(del_index, current_index) ELSE del_index)
    ELSE del_index

\* the scan from the head that collects del_index; rest counts down only
\* when count is not 0
RECURSIVE CollectForward(_, _, _, _, _, _, _, _)
CollectForward(d, iter, current_index, stop_index, count, rest, value, del_index) ==
    IF iter # End /\ current_index <= stop_index /\ (count = 0 \/ rest # 0)
    THEN LET hit == StrcmpEq(d[iter], value)
         IN  CollectForward(d, IterNext(d, iter), current_index + 1, stop_index, count,
                            IF hit /\ count # 0 THEN rest - 1 ELSE rest, value,
                            IF hit THEN Append(del_index, current_index) ELSE del_index)
    ELSE del_index

\* the scan from the tail
RECURSIVE CollectBackward(_, _, _, _, _, _, _, _)
CollectBackward(d, iter, current_index, start_index, count, rest, value, del_index) ==
    IF iter # End /\ current_index >= start_index /\ (count = 0 \/ rest # 0)
    THEN LET hit == StrcmpEq(d[iter], value)
         IN  CollectBackward(d, IterPrev(d, iter), current_index - 1, start_index, count,
                             IF hit /\ count # 0 THEN rest - 1 ELSE rest, value,
                             IF hit THEN Append(del_index, current_index) ELSE del_index)
    ELSE del_index

\* the rewrite of the left part, from sublist_right_index down to start_index:
\* the first rest matches are dropped, every other node is put at left--
RECURSIVE RewriteLeft(_, _, _, _, _, _, _, _, _, _)
RewriteLeft(d, iter, current_index, start_index, key, version, value, rest, left, batch) ==
    IF iter # End /\ current_index >= start_index
    THEN IF StrcmpEq(d[iter], value) /\ rest > 0
         THEN RewriteLeft(d, IterPrev(d, iter), current_index - 1, start_index, key, version,
                          value, rest - 1, left, batch)
         ELSE RewriteLeft(d, IterPrev(d, iter), current_index - 1, start_index, key, version,
                          value, rest, left - 1,
                          Append(batch, Put(1, ListsDataKey(key, version, left), d[iter])))
    ELSE batch

\* the rewrite of the right part, from sublist_left_index up to stop_index
RECURSIVE RewriteRight(_, _, _, _, _, _, _, _, _, _)
RewriteRight(d, iter, current_index, stop_index, key, version, value, rest, right, batch) ==
    IF iter # End /\ current_index <= stop_index
    THEN IF StrcmpEq(d[iter], value) /\ rest > 0
         THEN RewriteRight(d, IterNext(d, iter), current_index + 1, stop_index, key, version,
                           value, rest - 1, right, batch)
         ELSE RewriteRight(d, IterNext(d, iter), current_index + 1, stop_index, key, version,
                           value, rest, right + 1,
                           Append(batch, Put(1, ListsDataKey(key, version, right), d[iter])))
    ELSE batch

LRem(m, d, t, key, count, value) ==
    IF ~Found(m, key) THEN Result("NotFound", Out(0), m, d)
    ELSE LET pm == m[key] IN
         IF IsStale(pm, t) THEN Result("NotFound", Out(0), m, d)
         ELSE IF pm.count = 0 THEN Result("NotFound", Out(0), m, d)
         ELSE LET rest0       == IF count < 0 THEN 0 - count ELSE count
                  version     == pm.version
                  start_index == pm.left_index + 1
                  stop_index  == pm.right_index - 1
                  del_index   ==
                      IF count >= 0
                      THEN CollectForward(d, Seek(d, ListsDataKey(key, version, start_index)),
                                          start_index, stop_index, count, rest0, value, <<>>)
                      ELSE CollectBackward(d, Seek(d, ListsDataKey(key, version, stop_index)),
                                           stop_index, start_index, count, rest0, value, <<>>)
              IN  IF del_index = <<>> THEN Result("NotFound", Out(0), m, d)
                  ELSE LET size == Len(del_index)
                           sublist_left_index  == IF count >= 0 THEN del_index[1]
                                                  ELSE del_index[size]
                           sublist_right_index == IF count >= 0 THEN del_index[size]
                                                  ELSE del_index[1]
                           left_part_len  == sublist_right_index - start_index
                           right_part_len == stop_index - sublist_left_index
                       IN  IF left_part_len <= right_part_len
                           THEN LET batch == RewriteLeft(d,
                                                 Seek(d, ListsDataKey(key, version, sublist_right_index)),
                                                 sublist_right_index, start_index, key, version,
                                                 value, size, sublist_right_index, <<>>)
                                    pm1 == ModifyCount(ModifyLeftIndex(pm, 0 - size), 0 - size)
                                IN  Committed("OK", Out(size), m, d,
                                              Append(batch, Put(0, key, pm1)))
                           ELSE LET batch == RewriteRight(d,
                                                 Seek(d, ListsDataKey(key, version, sublist_left_index)),
                                                 sublist_left_index, stop_index, key, version,
                                                 value, size, sublist_left_index, <<>>)
                                    pm1 == ModifyCount(ModifyRightIndex(pm, 0 - size), 0 - size)
                                IN  Committed("OK", Out(size), m, d,
                                              Append(batch, Put(0, key, pm1)))

-----------------------------------------------------------------------------
(* LSet *)

\* LSet as it would be with < and > in its range check
LSetLooseRange(m, d, t, key, index, value) ==
    IF ~Found(m, key) THEN Result("NotFound", Unset, m, d)
    ELSE LET pm == m[key] IN
         IF IsStale(pm, t) THEN Result("NotFound", Unset, m, d)
         ELSE IF pm.count = 0 THEN Result("NotFound", Unset, m, d)
         ELSE LET target_index == Translate(pm, index)
              IN  IF target_index < pm.left_index \/ target_index > pm.right_index
                  THEN Result("NotFound", Unset, m, d)
                  ELSE Committed("OK", Unset, m, d,
                                 <<Put(1, ListsDataKey(key, pm.version, target_index), value)>>)

LSet(m, d, t, key, index, value) ==
    IF ~Found(m, key) THEN Result("NotFound", Unset, m, d)
    ELSE LET pm == m[key] IN
         IF IsStale(pm, t) THEN Result("NotFound", Unset, m, d)
         ELSE IF pm.count = 0 THEN Result("NotFound", Unset, m, d)
         ELSE LET target_index == Translate(pm, index)
              IN  IF target_index <= pm.left_index \/ target_index >= pm.right_index
                  THEN Result("NotFound", Unset, m, d)
                  ELSE Committed("OK", Unset, m, d,
                                 <<Put(1, ListsDataKey(key, pm.version, target_index), value)>>)

-----------------------------------------------------------------------------
(* RPoplpush *)

\* the rotation as it would be without the early return for count() == 1
RotateAlways(m, d, t, source) ==
    IF ~Found(m, source) THEN Result("NotFound", Out(<<>>), m, d)
    ELSE LET pm == m[source] IN
         IF IsStale(pm, t) THEN Result("NotFound", Out(<<>>), m, d)
         ELSE IF pm.count = 0 THEN Result("NotFound", Out(<<>>), m, d)
         ELSE LET version         == pm.version
                  last_node_index == pm.right_index - 1
                  lists_data_key  == ListsDataKey(source, version, last_node_index)
              IN  IF ~HasData(d, lists_data_key) THEN Result("NotFound", Out(<<>>), m, d)
                  ELSE LET target == d[lists_data_key]
                           target_index == pm.left_index
                           pm1 == ModifyLeftIndex(ModifyRightIndex(pm, -1), 1)
                       IN  Committed("OK", Out(target), m, d,
                               <<Delete(1, lists_data_key),
                                 Put(1, ListsDataKey(source, version, target_index), target),
                                 Put(0, source, pm1)>>)

\* source == destination
Rotate(m, d, t, source) ==
    IF ~Found(m, source) THEN Result("NotFound", Out(<<>>), m, d)
    ELSE LET pm == m[source] IN
         IF IsStale(pm, t) THEN Result("NotFound", Out(<<>>), m, d)
         ELSE IF pm.count = 0 THEN Result("NotFound", Out(<<>>), m, d)
         ELSE LET version         == pm.version
                  last_node_index == pm.right_index - 1
                  lists_data_key  == ListsDataKey(source, version, last_node_index)
              IN  IF ~HasData(d, lists_data_key) THEN Result("NotFound", Out(<<>>), m, d)
                  ELSE LET target == d[lists_data_key] IN
                       IF pm.count = 1 THEN Result("OK", Out(target), m, d)
                       ELSE LET target_index == pm.left_index
                                pm1 == ModifyLeftIndex(ModifyRightIndex(pm, -1), 1)
                            IN  Committed("OK", Out(target), m, d,
                                    <<Delete(1, lists_data_key),
                                      Put(1, ListsDataKey(source, version, target_index), target),
                                      Put(0, source, pm1)>>)

\* source != destination, with the source left as it was
MoveKeepsSource(m, d, t, source, destination) ==
    IF ~Found(m, source) THEN Result("NotFound", Out(<<>>), m, d)
    ELSE LET spm == m[source] IN
         IF IsStale(spm, t) THEN Result("NotFound", Out(<<>>), m, d)
         ELSE IF spm.count = 0 THEN Result("NotFound", Out(<<>>), m, d)
         ELSE LET last_node_index == spm.right_index - 1
                  source_data_key == ListsDataKey(source, spm.version, last_node_index)
              IN  IF ~HasData(d, source_data_key) THEN Result("NotFound", Out(<<>>), m, d)
                  ELSE LET target == d[source_data_key]
                           batch  == <<>>
                       IN  IF Found(m, destination)
                           THEN LET dpm == IF IsStale(m[destination], t)
                                           THEN InitialMetaValue(m[destination])
                                           ELSE m[destination]
                                    target_index == dpm.left_index
                                    dpm1 == ModifyLeftIndex(ModifyCount(dpm, 1), 1)
                                IN  Committed("OK", Out(target), m, d,
                                        batch \o
                                        <<Put(1, ListsDataKey(destination, dpm.version, target_index), target),
                                          Put(0, destination, dpm1)>>)
                           ELSE LET dpm == UpdateVersion(ListsMetaValue(1))
                                    target_index == dpm.left_index
                                    dpm1 == ModifyLeftIndex(dpm, 1)
                                IN  Committed("OK", Out(target), m, d,
                                        batch \o
                                        <<Put(1, ListsDataKey(destination, dpm.version, target_index), target),
                                          Put(0, destination, dpm1)>>)

\* source != destination
Move(m, d, t, source, destination) ==
    IF ~Found(m, source) THEN Result("NotFound", Out(<<>>), m, d)
    ELSE LET spm == m[source] IN
         IF IsStale(spm, t) THEN Result("NotFound", Out(<<>>), m, d)
         ELSE IF spm.count = 0 THEN Result("NotFound", Out(<<>>), m, d)
         ELSE LET last_node_index == spm.right_index - 1
                  source_data_key == ListsDataKey(source, spm.version, last_node_index)
              IN  IF ~HasData(d, source_data_key) THEN Result("NotFound", Out(<<>>), m, d)
                  ELSE LET target == d[source_data_key]
                           spm1   == ModifyRightIndex(ModifyCount(spm, -1), -1)
                           batch  == <<Delete(1, source_data_key), Put(0, source, spm1)>>
                       IN  IF Found(m, destination)
                           THEN LET dpm == IF IsStale(m[destination], t)
                                           THEN InitialMetaValue(m[destination])
                                           ELSE m[destination]
                                    target_index == dpm.left_index
                                    dpm1 == ModifyLeftIndex(ModifyCount(dpm, 1), 1)
                                IN  Committed("OK", Out(target), m, d,
                                        batch \o
                                        <<Put(1, ListsDataKey(destination, dpm.version, target_index), target),
                                          Put(0, destination, dpm1)>>)
                           ELSE LET dpm == UpdateVersion(ListsMetaValue(1))
                                    target_index == dpm.left_index
                                    dpm1 == ModifyLeftIndex(dpm, 1)
                                IN  Committed("OK", Out(target), m, d,
                                        batch \o
                                        <<Put(1, ListsDataKey(destination, dpm.version, target_index), target),
                                          Put(0, destination, dpm1)>>)

RPoplpush(m, d, t, source, destination) ==
    IF source = destination THEN Rotate(m, d, t, source)
    ELSE Move(m, d, t, source, destination)

-----------------------------------------------------------------------------
(* Expire, Del *)

Expire(m, d, t, key, ttl) ==
    IF ~Found(m, key) THEN Result("NotFound", Unset, m, d)
    ELSE LET pm == m[key] IN
         IF IsStale(pm, t) THEN Result("NotFound", Unset, m, d)
         ELSE IF ttl > 0
              THEN Committed("OK", Unset, m, d, <<Put(0, key, SetRelativeTimestamp(pm, ttl, t))>>)
              ELSE Committed("OK", Unset, m, d, <<Put(0, key, InitialMetaValue(pm))>>)

Del(m, d, t, key) ==
    IF ~Found(m, key) THEN Result("NotFound", Unset, m, d)
    ELSE LET pm == m[key] IN
         IF IsStale(pm, t) THEN Result("NotFound", Unset, m, d)
         ELSE Committed("OK", Unset, m, d, <<Put(0, key, InitialMetaValue(pm))>>)

-----------------------------------------------------------------------------
(* The engine as a state machine: calls from any thread, one at a time.     *)
(* last is the most recent call that changed the store, nops counts them.   *)
(* th, lock and hist belong to the specifications in which calls overlap    *)
(* and stay empty here.                                                     *)

NoCall == [op |-> "none", key |-> 0, arg |-> <<>>, status |-> "OK", ret |-> <<>>]

Init ==
    /\ meta = <<>>
    /\ data = <<>>
    /\ now = 1
    /\ last = NoCall
    /\ nops = 0
    /\ th = <<>>
    /\ lock = <<>>
    /\ hist = <<>>

Call(op, key, arg, r) ==
    /\ nops < MaxOps
    /\ meta' = r.meta
    /\ data' = r.data
    /\ now' = now
    /\ IF r.meta # meta \/ r.data # data
       THEN /\ last' = [op |-> op, key |-> key, arg |-> arg, status |-> r.status, ret |-> r.ret]
            /\ nops' = nops + 1
       ELSE UNCHANGED <<last, nops>>
    /\ UNCHANGED <<th, lock, hist>>

LPushCall ==
    \E key \in Keys, values \in PushValues :
        Call("LPush", key, <<values>>, LPush(meta, data, now, key, values))

RPushCall ==
    \E key \in Keys, values \in PushValues :
        Call("RPush", key, <<values>>, RPush(meta, data, now, key, values))

LPushxCall ==
    \E key \in Keys, value \in Payloads :
        Call("LPushx", key, <<value>>, LPushx(meta, data, now, key, value))

RPushxCall ==
    \E key \in Keys, value \in Payloads :
        Call("RPushx", key, <<value>>, RPushx(meta, data, now, key, value))

LPopCall ==
    \E key \in Keys : Call("LPop", key, <<>>, LPop(meta, data, now, key))

RPopCall ==
    \E key \in Keys : Call("RPop", key, <<>>, RPop(meta, data, now, key))

LRangeCall ==
    \E key \in Keys, start \in IndexArgs, stop \in IndexArgs :
        Call("LRange", key, <<start, stop>>, LRange(meta, data, now, key, start, stop))

LTrimCall ==
    \E key \in Keys, start \in IndexArgs, stop \in IndexArgs :
        Call("LTrim", key, <<start, stop>>, LTrim(meta, data, now, key, start, stop))

LLenCall ==
    \E key \in Keys : Call("LLen", key, <<>>, LLen(meta, data, now, key))

LIndexCall ==
    \E key \in Keys, index \in IndexArgs :
        Call("LIndex", key, <<index>>, LIndex(meta, data, now, key, index))

LSetCall ==
    \E key \in Keys, index \in IndexArgs, value \in Payloads :
        Call("LSet", key, <<index, value>>, LSet(meta, data, now, key, index, value))

LInsertCall ==
    \E key \in Keys, before_or_after \in BeforeOrAfter, pivot \in Needles, value \in Payloads :
        Call("LInsert", key, <<before_or_after, pivot, value>>,
             LInsert(meta, data, now, key, before_or_after, pivot, value))

LRemCall ==
    \E key \in Keys, count \in IndexArgs, value \in Needles :
        Call("LRem", key, <<count, value>>, LRem(meta, data, now, key, count, value))

RPoplpushCall ==
    \E source \in Keys, destination \in Keys :
        Call("RPoplpush", source, <<destination>>,
             RPoplpush(meta, data, now, source, destination))

ExpireCall ==
    \E key \in Keys, ttl \in TTLs :
        Call("Expire", key, <<ttl>>, Expire(meta, data, now, key, ttl))

DelCall ==
    \E key \in Keys : Call("Del", key, <<>>, Del(meta, data, now, key))

\* the wall clock advances
Tick ==
    /\ now < MaxTime
    /\ now' = now + 1
    /\ UNCHANGED <<meta, data, last, nops, th, lock, hist>>

Next ==
    \/ LPushCall
    \/ RPushCall
    \/ LPushxCall
    \/ RPushxCall
    \/ LPopCall
    \/ RPopCall
    \/ LRangeCall
    \/ LTrimCall
    \/ LLenCall
    \/ LIndexCall
    \/ LSetCall
    \/ LInsertCall
    \/ LRemCall
    \/ RPoplpushCall
    \/ ExpireCall
    \/ DelCall
    \/ Tick

Spec == Init /\ [][Next]_vars

-----------------------------------------------------------------------------
(* The list a key holds, read record by record from its cursors *)

Live(m, t, key) == Found(m, key) /\ ~IsStale(m[key], t)

\* the value of a logical slot that holds no record
Hole == <<-1>>

Cell(d, dk) == IF HasData(d, dk) THEN d[dk] ELSE Hole

ListOf(m, d, t, key) ==
    IF Live(m, t, key)
    THEN LET pm == m[key]
         IN  [i \in 1 .. (pm.right_index - pm.left_index - 1) |->
                 Cell(d, ListsDataKey(key, pm.version, pm.left_index + i))]
    ELSE <<>>

\* what LRange(key, 0, -1) returns on the store a call left behind
RangeAll(r, t, key) == LRange(r.meta, r.data, t, key, 0, -1).ret

Reverse(s) == [i \in 1 .. Len(s) |-> s[Len(s) + 1 - i]]

\* the positions from .. to of s, counted from 0, cut to the positions s has
Window(s, from, to) ==
    LET lo == IF from < 0 THEN 0 ELSE from
        hi == IF to > Len(s) - 1 THEN Len(s) - 1 ELSE to
    IN  IF lo > hi THEN <<>> ELSE SubSeq(s, lo + 1, hi + 1)

\* an index argument counted from the head (from 0) or, when negative, from the tail
FromHead(n, index) == IF index >= 0 THEN index ELSE n + index

Orphans(m, d, key) ==
    {dk \in DOMAIN d : /\ dk[1] = key
                       /\ Found(m, key)
                       /\ dk[2] = m[key].version
                       /\ (dk[3] <= m[key].left_index \/ dk[3] >= m[key].right_index)}

-----------------------------------------------------------------------------
(* C1: in every reachable state every stored meta record has                 *)
(* right_index - left_index - 1 = count.                                     *)
C1_CursorsMatchCount ==
    \A key \in DOMAIN meta :
        meta[key].right_index - meta[key].left_index - 1 = meta[key].count

\* an RPoplpush from one key to another that left elements in both lists
C1_Witness ==
    /\ last.op = "RPoplpush"
    /\ last.arg # <<last.key>>
    /\ DOMAIN meta = Keys
    /\ \A key \in Keys : meta[key].count >= 1

(* C2: on a key holding the list L, LPush of v1..vn leaves vn..v1 followed   *)
(* by L, RPush leaves L followed by v1..vn, and both return len(L) + n.      *)
C2_PushOrder ==
    \A key \in Keys, values \in PushValues :
        LET L  == ListOf(meta, data, now, key)
            lp == LPush(meta, data, now, key, values)
            rp == RPush(meta, data, now, key, values)
        IN  /\ lp.status = "OK"
            /\ RangeAll(lp, now, key) = Out(Reverse(values) \o L)
            /\ lp.ret = Out(Len(L) + Len(values))
            /\ rp.status = "OK"
            /\ RangeAll(rp, now, key) = Out(L \o values)
            /\ rp.ret = Out(Len(L) + Len(values))

\* an LPush of two values onto a list that already held elements
C2_Witness ==
    /\ last.op = "LPush"
    /\ Len(last.arg[1]) = 2
    /\ last.ret = Out(Len(ListOf(meta, data, now, last.key)))
    /\ Len(ListOf(meta, data, now, last.key)) > 2
    /\ SubSeq(ListOf(meta, data, now, last.key), 1, 2) = Reverse(last.arg[1])

(* C3: on a live non-empty list LPop returns the first element and RPop the  *)
(* last, and the list is left without it; on a missing, stale or empty key   *)
(* both return NotFound and leave meta and data as they were.                *)
C3_Pop ==
    \A key \in Keys :
        LET L  == ListOf(meta, data, now, key)
            lp == LPop(meta, data, now, key)
            rp == RPop(meta, data, now, key)
        IN  IF L # <<>>
            THEN /\ lp.status = "OK"
                 /\ lp.ret = Out(L[1])
                 /\ RangeAll(lp, now, key) = Out(Tail(L))
                 /\ ListOf(lp.meta, lp.data, now, key) = Tail(L)
                 /\ rp.status = "OK"
                 /\ rp.ret = Out(L[Len(L)])
                 /\ RangeAll(rp, now, key) = Out(SubSeq(L, 1, Len(L) - 1))
                 /\ ListOf(rp.meta, rp.data, now, key) = SubSeq(L, 1, Len(L) - 1)
            ELSE /\ lp.status = "NotFound"
                 /\ lp.meta = meta /\ lp.data = data
                 /\ rp.status = "NotFound"
                 /\ rp.meta = meta /\ rp.data = data

\* an RPop that returned the last of several elements
C3_Witness ==
    /\ last.op = "RPop"
    /\ last.status = "OK"
    /\ last.ret \in {Out(p) : p \in Payloads}
    /\ Len(ListOf(meta, data, now, last.key)) >= 2

(* C4: on a live list L of length n, LRange(start, stop) returns the         *)
(* elements of L at the positions start .. stop, negative arguments counted  *)
(* from the tail and the window cut to 0 .. n-1; it is empty when start is   *)
(* past stop.                                                                *)
C4_Range ==
    \A key \in Keys, start \in IndexArgs, stop \in IndexArgs :
        LET L == ListOf(meta, data, now, key)
            n == Len(L)
            r == LRange(meta, data, now, key, start, stop)
        IN  L # <<>> =>
              /\ r.status = "OK"
              /\ r.ret = Out(IF FromHead(n, start) > FromHead(n, stop) THEN <<>>
                             ELSE Window(L, FromHead(n, start), FromHead(n, stop)))

\* a list that LRem left with an orphaned slot of the current version, whose
\* last two elements LRange(-2, -1) returns
C4_Witness ==
    /\ last.op = "LRem"
    /\ Orphans(meta, data, last.key) # {}
    /\ Len(ListOf(meta, data, now, last.key)) >= 2
    /\ LRange(meta, data, now, last.key, -2, -1).ret
         = Out(SubSeq(ListOf(meta, data, now, last.key),
                      Len(ListOf(meta, data, now, last.key)) - 1,
                      Len(ListOf(meta, data, now, last.key))))

(* C5: on a live list of length n, LIndex(i) returns the element at          *)
(* position i when -n <= i < n, and NotFound without a payload for every     *)
(* other index.                                                              *)
C5_IndexOutOfRange ==
    \A key \in Keys, index \in IndexArgs :
        LET L == ListOf(meta, data, now, key)
            n == Len(L)
            r == LIndex(meta, data, now, key, index)
        IN  L # <<>> =>
              IF 0 - n <= index /\ index < n
              THEN r.status = "OK" /\ r.ret = Out(L[FromHead(n, index) + 1])
              ELSE r.status = "NotFound" /\ r.ret = Unset

\* a live list and an index outside -n .. n-1 for which LIndex reads the
\* record that LRem left behind outside (left_index, right_index)
C5_Witness ==
    /\ last.op = "LRem"
    /\ \E index \in IndexArgs :
          LET L == ListOf(meta, data, now, last.key)
              pm == meta[last.key]
          IN  /\ L # <<>>
              /\ ~(0 - Len(L) <= index /\ index < Len(L))
              /\ ListsDataKey(last.key, pm.version, Translate(pm, index))
                    \in Orphans(meta, data, last.key)
              /\ LIndex(meta, data, now, last.key, index).status = "OK"

(* C6: on a live list and an index within range, LSet(i, v) followed by      *)
(* LIndex(i) returns v and every other position is unchanged; for an index   *)
(* out of range LSet returns NotFound and writes no record.                  *)
C6_SetThenIndex ==
    \A key \in Keys, index \in IndexArgs, value \in Payloads :
        LET L == ListOf(meta, data, now, key)
            n == Len(L)
            r == LSet(meta, data, now, key, index, value)
        IN  L # <<>> =>
              IF 0 - n <= index /\ index < n
              THEN /\ r.status = "OK"
                   /\ LIndex(r.meta, r.data, now, key, index).ret = Out(value)
                   /\ ListOf(r.meta, r.data, now, key)
                        = [L EXCEPT ![FromHead(n, index) + 1] = value]
                   /\ r.meta = meta
              ELSE /\ r.status = "NotFound"
                   /\ r.meta = meta
                   /\ r.data = data

\* an LSet through a negative index that changed an inner element of a list
\* of three or more
C6_Witness ==
    /\ last.op = "LSet"
    /\ last.arg[1] = -2
    /\ Len(ListOf(meta, data, now, last.key)) >= 3
    /\ LIndex(meta, data, now, last.key, -2).ret = Out(last.arg[2])

\* the position (from 1) of the first element of s equal to x, or 0
FirstAt(s, x) ==
    IF \E i \in 1 .. Len(s) : s[i] = x
    THEN CHOOSE i \in 1 .. Len(s) : s[i] = x /\ \A j \in 1 .. (i - 1) : s[j] # x
    ELSE 0

\* s with x put in as its element number at
InsertAt(s, at, x) == SubSeq(s, 1, at - 1) \o <<x>> \o SubSeq(s, at, Len(s))

(* C7: if the pivot occurs in the live list L, LInsert puts the value        *)
(* immediately before or after its leftmost occurrence, keeps the order of   *)
(* the rest and returns len(L) + 1; if it does not occur, LInsert returns -1 *)
(* and changes neither meta nor data.                                        *)
C7_Insert ==
    \A key \in Keys, before_or_after \in BeforeOrAfter, pivot \in Needles, value \in Payloads :
        LET L == ListOf(meta, data, now, key)
            r == LInsert(meta, data, now, key, before_or_after, pivot, value)
            p == FirstAt(L, pivot)
        IN  L # <<>> =>
              IF p # 0
              THEN /\ r.status = "OK"
                   /\ r.ret = Out(Len(L) + 1)
                   /\ ListOf(r.meta, r.data, now, key)
                        = InsertAt(L, IF before_or_after = "Before" THEN p ELSE p + 1, value)
              ELSE /\ r.ret = Out(-1)
                   /\ r.meta = meta
                   /\ r.data = data

\* a list in which an LInsert with the pivot <<2>> found the element <<2, 0>>
C7_Witness ==
    /\ last.op = "LInsert"
    /\ last.arg[2] = <<2>>
    /\ last.status = "OK"
    /\ FirstAt(ListOf(meta, data, now, last.key), <<2>>) = 0
    /\ FirstAt(ListOf(meta, data, now, last.key), <<2, 0>>) # 0

\* s without its first c elements equal to x
RECURSIVE DropFirst(_, _, _)
DropFirst(s, c, x) ==
    IF s = <<>> THEN <<>>
    ELSE IF Head(s) = x /\ c > 0 THEN DropFirst(Tail(s), c - 1, x)
    ELSE <<Head(s)>> \o DropFirst(Tail(s), c, x)

\* what LREM count x leaves of s
Removed(s, count, x) ==
    IF count > 0 THEN DropFirst(s, count, x)
    ELSE IF count < 0 THEN Reverse(DropFirst(Reverse(s), 0 - count, x))
    ELSE DropFirst(s, Len(s), x)

(* C8: LRem(c, v) on a live list removes the first c occurrences of v from   *)
(* the head when c > 0, the first |c| from the tail when c < 0, every one    *)
(* when c = 0; it returns the number removed and the survivors keep their    *)
(* order.                                                                    *)
C8_Remove ==
    \A key \in Keys, count \in IndexArgs, value \in Needles :
        LET L    == ListOf(meta, data, now, key)
            r    == LRem(meta, data, now, key, count, value)
            left == Removed(L, count, value)
        IN  L # <<>> =>
              /\ r.ret = Out(Len(L) - Len(left))
              /\ ListOf(r.meta, r.data, now, key) = left
              /\ RangeAll(r, now, key) = Out(left)

\* a list from which an LRem of <<2>> removed elements, none of them <<2>>
C8_Witness ==
    /\ last.op = "LRem"
    /\ last.arg[2] = <<2>>
    /\ last.status = "OK"
    /\ last.ret \in {Out(c) : c \in 1 .. MaxPush}
    /\ ListOf(meta, data, now, last.key) # <<>>

(* C9: after LTrim(start, stop) on a live list L, LRange(0, -1) returns the  *)
(* elements of L whose positions lie in start .. stop (negative arguments    *)
(* counted from the tail), in order: none when start is past stop.           *)
C9_Trim ==
    \A key \in Keys, start \in IndexArgs, stop \in IndexArgs :
        LET L == ListOf(meta, data, now, key)
            n == Len(L)
            r == LTrim(meta, data, now, key, start, stop)
        IN  L # <<>> =>
              RangeAll(r, now, key)
                = Out(IF FromHead(n, start) > FromHead(n, stop) THEN <<>>
                      ELSE Window(L, FromHead(n, start), FromHead(n, stop)))

\* a list of two left by an LTrim whose start lay before the head and whose
\* stop was the head
C9_Witness ==
    /\ last.op = "LTrim"
    /\ last.arg = <<-4, 0>>
    /\ Len(ListOf(meta, data, now, last.key)) = 2

(* C10: RPoplpush(k, k) on a live list of length >= 2 returns the last       *)
(* element and makes it the first, the others keeping their order and count  *)
(* its value; on a list of length 1 it returns the element and changes       *)
(* nothing.                                                                  *)
C10_Rotate ==
    \A key \in Keys :
        LET L == ListOf(meta, data, now, key)
            n == Len(L)
            r == RPoplpush(meta, data, now, key, key)
        IN  L # <<>> =>
              /\ r.status = "OK"
              /\ r.ret = Out(L[n])
              /\ IF n >= 2
                 THEN /\ ListOf(r.meta, r.data, now, key) = <<L[n]>> \o SubSeq(L, 1, n - 1)
                      /\ RangeAll(r, now, key) = Out(<<L[n]>> \o SubSeq(L, 1, n - 1))
                      /\ r.meta[key].count = meta[key].count
                 ELSE r.meta = meta /\ r.data = data

\* a rotation of a list of three whose last element differed from its first
C10_Witness ==
    /\ last.op = "RPoplpush"
    /\ last.arg = <<last.key>>
    /\ Len(ListOf(meta, data, now, last.key)) = 3
    /\ last.ret = Out(ListOf(meta, data, now, last.key)[1])
    /\ ListOf(meta, data, now, last.key)[1] # ListOf(meta, data, now, last.key)[2]

-----------------------------------------------------------------------------
(* Overlapping calls.  Each thread makes one call.  A call under            *)
(* ScopeRecordLock / MultiScopeRecordLock takes its locks one at a time,    *)
(* runs its reads and its one Write as one step (every writer of the key's  *)
(* records holds the same lock, and the Write is atomic), and releases the  *)
(* locks when it returns.  LTrim runs its critical section, releases the    *)
(* lock and then calls RPush, which takes the lock again.  LLen reads the   *)
(* meta record without a lock; LIndex takes a snapshot and reads the meta   *)
(* record and the data record from it, without a lock.                      *)

\* threads making calls at the same time
MaxThreads == 2

Threads == 1 .. MaxThreads

EmptyStore == [meta |-> <<>>, data |-> <<>>]

StoreOf(r) == [meta |-> r.meta, data |-> r.data]

\* the stores the overlapping calls start from: each key is missing, or holds
\* the list RPush left, or holds the list an RPush and an LRem left (with the
\* record LRem vacated still stored at right_index)
Prefill(s, key, n) ==
    IF n = 0 THEN s
    ELSE IF n = 1
    THEN StoreOf(RPush(s.meta, s.data, 1, key, <<<<1>>, <<2, 0>>>>))
    ELSE LET r == RPush(s.meta, s.data, 1, key, <<<<1>>, <<1>>>>)
         IN  StoreOf(LRem(r.meta, r.data, 1, key, -1, <<1>>))

InitStores == {Prefill(Prefill(EmptyStore, 1, i), 2, j) : i \in 0 .. 2, j \in 0 .. 2}

\* the calls a thread may make
ConcOps ==
    {[op |-> "LPush", key |-> k, arg |-> <<<<<<1>>>>>>] : k \in Keys}
    \cup {[op |-> "RPush", key |-> k, arg |-> <<<<<<2, 0>>>>>>] : k \in Keys}
    \cup {[op |-> "LPop", key |-> k, arg |-> <<>>] : k \in Keys}
    \cup {[op |-> "LTrim", key |-> k, arg |-> <<0, 0>>] : k \in Keys}
    \cup {[op |-> "LLen", key |-> k, arg |-> <<>>] : k \in Keys}
    \cup {[op |-> "LRange", key |-> k, arg |-> <<0, -1>>] : k \in Keys}
    \cup {[op |-> "LIndex", key |-> k, arg |-> <<i>>] : k \in Keys, i \in {1, -1}}
    \cup {[op |-> "LInsert", key |-> k, arg |-> <<"Before", <<1>>, <<2, 0>>>>] : k \in Keys}
    \cup {[op |-> "LRem", key |-> k, arg |-> <<0, <<1>>>>] : k \in Keys}
    \cup {[op |-> "Del", key |-> k, arg |-> <<>>] : k \in Keys}
    \cup {[op |-> "RPoplpush", key |-> k, arg |-> <<k2>>] : k \in Keys, k2 \in Keys}

\* a call as a whole
Apply(o, m, d, t) ==
    CASE o.op = "LPush"     -> LPush(m, d, t, o.key, o.arg[1])
      [] o.op = "RPush"     -> RPush(m, d, t, o.key, o.arg[1])
      [] o.op = "LPop"      -> LPop(m, d, t, o.key)
      [] o.op = "LTrim"     -> LTrim(m, d, t, o.key, o.arg[1], o.arg[2])
      [] o.op = "LLen"      -> LLen(m, d, t, o.key)
      [] o.op = "LRange"    -> LRange(m, d, t, o.key, o.arg[1], o.arg[2])
      [] o.op = "LIndex"    -> LIndex(m, d, t, o.key, o.arg[1])
      [] o.op = "LInsert"   -> LInsert(m, d, t, o.key, o.arg[1], o.arg[2], o.arg[3])
      [] o.op = "LRem"      -> LRem(m, d, t, o.key, o.arg[1], o.arg[2])
      [] o.op = "Del"       -> Del(m, d, t, o.key)
      [] o.op = "RPoplpush" -> RPoplpush(m, d, t, o.key, o.arg[1])

\* MultiScopeRecordLock as it would be if it took the keys in the order given
KeysAsGiven(source, destination) ==
    IF source = destination THEN <<source>> ELSE <<source, destination>>

\* MultiScopeRecordLock: the keys in sorted order, each once
SortedDistinct(source, destination) ==
    IF source = destination THEN <<source>>
    ELSE IF source < destination THEN <<source, destination>>
    ELSE <<destination, source>>

\* the locks a call takes on entry, in the order it takes them
LocksOf(o) ==
    IF o.op = "RPoplpush" THEN SortedDistinct(o.key, o.arg[1]) ELSE <<o.key>>

\* where a call starts
Entry(o) ==
    IF o.op = "LLen" THEN "get"
    ELSE IF o.op = "LIndex" THEN "snapshot"
    ELSE "lock"

\* a thread before its call has done anything; window holds the lists the key
\* of an LIndex has held in a committed state since the call began
Thread(o, store) ==
    [pc |-> Entry(o), op |-> o, pending |-> LocksOf(o), phase |-> 1,
     values |-> <<>>, snap |-> EmptyStore, pm |-> ListsMetaValue(0),
     window |-> IF o.op = "LIndex" THEN {ListOf(store.meta, store.data, 1, o.key)} ELSE {},
     status |-> "none", ret |-> Unset]

ConcInit ==
    /\ \E store \in InitStores :
          /\ meta = store.meta
          /\ data = store.data
          /\ hist = [store |-> store, order |-> <<>>]
          /\ th \in [Threads -> {Thread(o, store) : o \in ConcOps}]
    /\ now = 1
    /\ last = NoCall
    /\ nops = 0
    /\ lock = [k \in Keys |-> 0]

\* the threads after a Write: every running LIndex has one more committed
\* state of its key in its window
Observed(T, m, d) ==
    [u \in Threads |->
        IF T[u].op.op = "LIndex" /\ T[u].pc # "done"
        THEN [T[u] EXCEPT !.window = @ \cup {ListOf(m, d, now, T[u].op.key)}]
        ELSE T[u]]

InOrder(t) == \E i \in 1 .. Len(hist.order) : hist.order[i] = t

\* lock_mgr_->TryLock(key) of the next key: waits while another call holds it
Acquire(t) ==
    /\ th[t].pc = "lock"
    /\ lock[Head(th[t].pending)] = 0
    /\ lock' = [lock EXCEPT ![Head(th[t].pending)] = t]
    /\ th' = [th EXCEPT ![t].pending = Tail(@),
                        ![t].pc = IF Tail(th[t].pending) = <<>> THEN "body" ELSE "lock"]
    /\ hist' = IF InOrder(t) THEN hist ELSE [hist EXCEPT !.order = Append(@, t)]
    /\ UNCHANGED <<meta, data, now, last, nops>>

\* the call under its locks, up to its return
Body(t) ==
    /\ th[t].pc = "body"
    /\ th[t].op.op # "LTrim"
    /\ LET r == Apply(th[t].op, meta, data, now)
       IN  /\ meta' = r.meta
           /\ data' = r.data
           /\ th' = Observed([th EXCEPT ![t].pc = "unlock",
                                        ![t].status = r.status,
                                        ![t].ret = r.ret], r.meta, r.data)
    /\ UNCHANGED <<now, last, nops, lock, hist>>

\* the critical section of LTrim
TrimInner(t) ==
    /\ th[t].pc = "body"
    /\ th[t].op.op = "LTrim"
    /\ th[t].phase = 1
    /\ LET inner == LTrimInner(meta, data, now, th[t].op.key, th[t].op.arg[1], th[t].op.arg[2])
       IN  /\ meta' = inner.meta
           /\ data' = data
           /\ th' = Observed([th EXCEPT ![t].pc = "unlock",
                                        ![t].phase = IF inner.returned THEN 3 ELSE 2,
                                        ![t].values = inner.values,
                                        ![t].status = inner.status], inner.meta, data)
    /\ UNCHANGED <<now, last, nops, lock, hist>>

\* return RPush(key, values, &count) of LTrim, under the lock RPush took
TrimPush(t) ==
    /\ th[t].pc = "body"
    /\ th[t].op.op = "LTrim"
    /\ th[t].phase = 2
    /\ LET r == LTrimPush(meta, data, now, th[t].op.key, th[t].values)
       IN  /\ meta' = r.meta
           /\ data' = r.data
           /\ th' = Observed([th EXCEPT ![t].pc = "unlock",
                                        ![t].phase = 3,
                                        ![t].status = r.status], r.meta, r.data)
    /\ UNCHANGED <<now, last, nops, lock, hist>>

\* ~ScopeRecordLock / ~MultiScopeRecordLock; LTrim goes on to call RPush
Release(t) ==
    /\ th[t].pc = "unlock"
    /\ lock' = [k \in Keys |-> IF lock[k] = t THEN 0 ELSE lock[k]]
    /\ th' = IF th[t].op.op = "LTrim" /\ th[t].phase = 2
             THEN [th EXCEPT ![t].pc = "lock", ![t].pending = <<th[t].op.key>>]
             ELSE [th EXCEPT ![t].pc = "done"]
    /\ UNCHANGED <<meta, data, now, last, nops, hist>>

\* LLen: one Get of the meta record, no lock
LLenGet(t) ==
    /\ th[t].pc = "get"
    /\ LET r == LLen(meta, data, now, th[t].op.key)
       IN  th' = [th EXCEPT ![t].pc = "done", ![t].status = r.status, ![t].ret = r.ret]
    /\ UNCHANGED <<meta, data, now, last, nops, lock, hist>>

\* LIndex: ScopeSnapshot ss(db_, &snapshot)
Snapshot(t) ==
    /\ th[t].pc = "snapshot"
    /\ th' = [th EXCEPT ![t].pc = "getmeta", ![t].snap = [meta |-> meta, data |-> data]]
    /\ UNCHANGED <<meta, data, now, last, nops, lock, hist>>

\* LIndex: db_->Get(read_options, handles_[0], key, &meta_value) and the tests
\* of the meta value
GetMeta(t) ==
    /\ th[t].pc = "getmeta"
    /\ LET m == th[t].snap.meta
           key == th[t].op.key
       IN  IF Found(m, key) /\ ~IsStale(m[key], now) /\ m[key].count # 0
           THEN th' = [th EXCEPT ![t].pc = "getdata", ![t].pm = m[key]]
           ELSE th' = [th EXCEPT ![t].pc = "done", ![t].status = "NotFound"]
    /\ UNCHANGED <<meta, data, now, last, nops, lock, hist>>

\* LIndex: db_->Get(read_options, handles_[1], lists_data_key.Encode(), &tmp_element)
GetData(t) ==
    /\ th[t].pc = "getdata"
    /\ LET d == th[t].snap.data
           lists_data_key == ListsDataKey(th[t].op.key, th[t].pm.version,
                                          Translate(th[t].pm, th[t].op.arg[1]))
       IN  IF HasData(d, lists_data_key)
           THEN th' = [th EXCEPT ![t].pc = "done", ![t].status = "OK",
                                 ![t].ret = Out(d[lists_data_key])]
           ELSE th' = [th EXCEPT ![t].pc = "done", ![t].status = "NotFound"]
    /\ UNCHANGED <<meta, data, now, last, nops, lock, hist>>

ConcNext ==
    \/ \E t \in Threads : Acquire(t)
    \/ \E t \in Threads : Body(t)
    \/ \E t \in Threads : TrimInner(t)
    \/ \E t \in Threads : TrimPush(t)
    \/ \E t \in Threads : Release(t)
    \/ \E t \in Threads : LLenGet(t)
    \/ \E t \in Threads : Snapshot(t)
    \/ \E t \in Threads : GetMeta(t)
    \/ \E t \in Threads : GetData(t)

ConcSpec == ConcInit /\ [][ConcNext]_vars

\* the calls whose locks can meet: every RPoplpush over the two keys, and
\* one call of each way of starting (lock, lock twice, no lock, snapshot)
LockingOps ==
    {o \in ConcOps :
        \/ o.op = "RPoplpush"
        \/ o.op = "LPush" /\ o.key = 1
        \/ o.op = "LTrim" /\ o.key = 2
        \/ o.op = "LLen" /\ o.key = 2
        \/ o.op = "LIndex" /\ o.key = 1 /\ o.arg = <<-1>>}

\* both keys missing, or both holding a list of two elements
LockingInit ==
    /\ \E store \in {EmptyStore, Prefill(Prefill(EmptyStore, 1, 1), 2, 1)} :
          /\ meta = store.meta
          /\ data = store.data
          /\ hist = [store |-> store, order |-> <<>>]
          /\ th \in [Threads -> {Thread(o, store) : o \in LockingOps}]
    /\ now = 1
    /\ last = NoCall
    /\ nops = 0
    /\ lock = [k \in Keys |-> 0]

\* the scheduler runs a thread that can take a step
FairConcSpec == LockingInit /\ [][ConcNext]_vars /\ WF_vars(ConcNext)

Done(t) == th[t].pc = "done"

AllDone == \A t \in Threads : Done(t)

-----------------------------------------------------------------------------
\* the step in which thread t runs its RPoplpush from source to destination
MoveStep(t, source, destination) ==
    /\ th[t].op.op = "RPoplpush"
    /\ th[t].op.key = source
    /\ th[t].op.arg = <<destination>>
    /\ th[t].pc = "body"
    /\ th'[t].pc = "unlock"

(* C11: RPoplpush(s, d) with s # d on a live, non-empty s returns the last    *)
(* element x of s, and the one step that takes x off the tail of s puts it   *)
(* at the head of d (created when missing or stale); when s is missing,      *)
(* stale or empty it returns NotFound and the store stays as it was.  No     *)
(* other step of the call changes the store.                                 *)
C11_MoveIsOneStep ==
    [][\A t \in Threads, s \in Keys, d \in Keys :
          /\ (s # d /\ MoveStep(t, s, d)) =>
                LET S == ListOf(meta, data, now, s)
                    D == ListOf(meta, data, now, d)
                IN  IF S # <<>>
                    THEN /\ th'[t].status = "OK"
                         /\ th'[t].ret = Out(S[Len(S)])
                         /\ ListOf(meta', data', now', s) = SubSeq(S, 1, Len(S) - 1)
                         /\ ListOf(meta', data', now', d) = <<S[Len(S)]>> \o D
                    ELSE /\ th'[t].status = "NotFound"
                         /\ meta' = meta
                         /\ data' = data
          /\ (th[t].op.op = "RPoplpush" /\ s # d /\ th[t].op.key = s
              /\ th[t].op.arg = <<d>> /\ th'[t] # th[t] /\ ~MoveStep(t, s, d)) =>
                (meta' = meta /\ data' = data)]_vars

\* an RPoplpush between two keys has returned the element that now heads a
\* destination of two or more elements, and the source still holds elements
C11_Witness ==
    \E t \in Threads :
        /\ th # <<>>
        /\ th[t].op.op = "RPoplpush"
        /\ th[t].op.arg # <<th[t].op.key>>
        /\ th[t].status = "OK"
        /\ th[t].pc = "unlock"
        /\ Len(ListOf(meta, data, now, th[t].op.arg[1])) >= 2
        /\ th[t].ret = Out(Head(ListOf(meta, data, now, th[t].op.arg[1])))
        /\ Len(ListOf(meta, data, now, th[t].op.key)) >= 1

-----------------------------------------------------------------------------
\* the operations that take the lock of their one key
SingleKeyLocked == {"LPush", "RPush", "LPop", "LTrim", "LRange", "LInsert", "LRem", "Del"}

\* the calls of the threads of order made one after the other from store s:
\* the store they leave and what each returns
RECURSIVE RunInOrder(_, _)
RunInOrder(order, s) ==
    IF order = <<>> THEN [store |-> s, res |-> <<>>]
    ELSE LET r    == Apply(th[Head(order)].op, s.meta, s.data, now)
             rest == RunInOrder(Tail(order), StoreOf(r))
         IN  [store |-> rest.store,
              res   |-> <<[t |-> Head(order), status |-> r.status, ret |-> r.ret]>>
                        \o rest.res]

\* LTrim has put the emptied meta record and has not yet pushed the survivors
Invalidated(t) == th[t].op.op = "LTrim" /\ th[t].phase = 2

(* C12: a single-key mutator, LTrim included, holds the lock of its key      *)
(* from its first read to its last write: LTrim holds it from the Put that   *)
(* empties the list until the survivors are pushed back, and when calls on   *)
(* one key have all returned, the list and every returned value are those    *)
(* of the calls made one after the other in the order they took the lock.    *)
C12_LockOrder ==
    /\ \A t \in Threads : Invalidated(t) => lock[th[t].op.key] = t
    /\ (/\ AllDone
        /\ \A t \in Threads : /\ th[t].op.op \in SingleKeyLocked
                              /\ th[t].op.key = th[1].op.key)
       => LET run == RunInOrder(hist.order, hist.store)
              key == th[1].op.key
          IN  /\ ListOf(meta, data, now, key)
                    = ListOf(run.store.meta, run.store.data, now, key)
              /\ \A i \in 1 .. Len(run.res) :
                    /\ th[run.res[i].t].status = run.res[i].status
                    /\ th[run.res[i].t].ret = run.res[i].ret

\* an LTrim and an RPush on one key have both returned, the RPush having run
\* between the emptying of the list and the push of the survivors
C12_Witness ==
    /\ AllDone
    /\ \E t \in Threads, u \in Threads :
          /\ th[t].op.op = "LTrim"
          /\ th[u].op.op = "RPush"
          /\ th[u].op.key = th[t].op.key
          /\ th[u].status = "OK"
          /\ th[u].ret = Out(1)
          /\ Len(ListOf(hist.store.meta, hist.store.data, now, th[t].op.key)) = 2
          /\ Len(ListOf(meta, data, now, th[t].op.key)) = 2

-----------------------------------------------------------------------------
(* Backend failures.  One backend call of an operation (a Get, a Put or a   *)
(* Write) returns an I/O error instead of doing its work; a failed Put or   *)
(* Write changes nothing.  fail names the call that fails; failed says that *)
(* the operation reached it.                                                *)

Faulty(failed, r) == [failed |-> failed, r |-> r]

RPushF(m, d, t, key, values, fail) ==
    IF fail = "Get" THEN Faulty(TRUE, Result("IOError", Out(0), m, d))
    ELSE LET r == RPush(m, d, t, key, values)
         IN  IF fail = "Write" THEN Faulty(TRUE, Result("IOError", r.ret, m, d))
             ELSE Faulty(FALSE, r)

LPopF(m, d, t, key, fail) ==
    IF fail = "Get" THEN Faulty(TRUE, Result("IOError", Unset, m, d))
    ELSE IF ~Found(m, key) THEN Faulty(FALSE, Result("NotFound", Unset, m, d))
    ELSE LET pm == m[key] IN
         IF IsStale(pm, t) THEN Faulty(FALSE, Result("NotFound", Unset, m, d))
         ELSE IF pm.count = 0 THEN Faulty(FALSE, Result("NotFound", Unset, m, d))
         ELSE IF fail = "GetData" THEN Faulty(TRUE, Result("IOError", Unset, m, d))
         ELSE LET r == LPop(m, d, t, key)
              IN  IF fail = "Write" /\ r.status = "OK"
                  THEN Faulty(TRUE, Result("IOError", r.ret, m, d))
                  ELSE Faulty(FALSE, r)

LLenF(m, d, t, key, fail) ==
    IF fail = "Get" THEN Faulty(TRUE, Result("IOError", Unset, m, d))
    ELSE Faulty(FALSE, LLen(m, d, t, key))

DelF(m, d, t, key, fail) ==
    IF fail = "Get" THEN Faulty(TRUE, Result("IOError", Unset, m, d))
    ELSE IF fail = "Put" /\ Live(m, t, key)
         THEN Faulty(TRUE, Result("IOError", Unset, m, d))
         ELSE Faulty(FALSE, Del(m, d, t, key))

\* LTrim: a failed Get leaves the block with s not ok and goes on to
\* RPush(key, values, &count) with no values; a failed Put returns s; the
\* calls of RPush fail after the Put of the emptied meta value has succeeded
LTrimF(m, d, t, key, start, stop, fail) ==
    IF fail = "Get" THEN Faulty(TRUE, LTrimPush(m, d, t, key, <<>>))
    ELSE LET inner == LTrimInner(m, d, t, key, start, stop)
         IN  IF inner.returned THEN Faulty(FALSE, Result(inner.status, Unset, m, d))
             ELSE IF fail = "Put" /\ inner.meta # m
                  THEN Faulty(TRUE, Result("IOError", Unset, m, d))
             ELSE LET push == RPushF(inner.meta, d, t, key, inner.values,
                                     IF fail = "RPushGet" THEN "Get"
                                     ELSE IF fail = "RPushWrite" THEN "Write"
                                     ELSE "none")
                  IN  Faulty(push.failed,
                             Result(push.r.status, Unset, push.r.meta, push.r.data))

\* RPoplpush with one failing backend call: the Get of the source meta value
\* ("Get"), the Get of the popped record ("GetData"), the Get of the
\* destination meta value ("DestGet") or the final Write ("Write").  The
\* element is cleared on entry.
RPoplpushF(m, d, t, source, destination, fail) ==
    IF fail = "Get" THEN Faulty(TRUE, Result("IOError", Out(<<>>), m, d))
    ELSE IF ~Found(m, source) THEN Faulty(FALSE, Result("NotFound", Out(<<>>), m, d))
    ELSE LET pm == m[source] IN
         IF IsStale(pm, t) THEN Faulty(FALSE, Result("NotFound", Out(<<>>), m, d))
         ELSE IF pm.count = 0 THEN Faulty(FALSE, Result("NotFound", Out(<<>>), m, d))
         ELSE IF fail = "GetData" THEN Faulty(TRUE, Result("IOError", Out(<<>>), m, d))
         ELSE LET r == RPoplpush(m, d, t, source, destination)
              IN  IF r.status # "OK" THEN Faulty(FALSE, r)
                  ELSE IF source = destination
                  THEN \* *element = target comes before the Write
                       IF fail = "Write" /\ pm.count # 1
                       THEN Faulty(TRUE, Result("IOError", r.ret, m, d))
                       ELSE Faulty(FALSE, r)
                  ELSE IF fail \in {"DestGet", "Write"}
                       THEN Faulty(TRUE, Result("IOError", Out(<<>>), m, d))
                       ELSE Faulty(FALSE, r)

FaultInit ==
    /\ \E store \in InitStores :
          /\ meta = store.meta
          /\ data = store.data
          /\ hist = [failed |-> FALSE, before |-> store]
    /\ now = 1
    /\ last = NoCall
    /\ nops = 0
    /\ th = <<>>
    /\ lock = <<>>

\* one call, made with no other call in progress
FaultCall(op, key, arg, f) ==
    /\ nops < MaxOps
    /\ meta' = f.r.meta
    /\ data' = f.r.data
    /\ last' = [op |-> op, key |-> key, arg |-> arg, status |-> f.r.status, ret |-> f.r.ret]
    /\ hist' = [failed |-> f.failed, before |-> [meta |-> meta, data |-> data]]
    /\ nops' = nops + 1
    /\ UNCHANGED <<now, th, lock>>

RPushFault ==
    \E key \in Keys, values \in PushValues, fail \in {"none", "Get", "Write"} :
        FaultCall("RPush", key, <<values>>, RPushF(meta, data, now, key, values, fail))

LPopFault ==
    \E key \in Keys, fail \in {"none", "Get", "GetData", "Write"} :
        FaultCall("LPop", key, <<>>, LPopF(meta, data, now, key, fail))

LLenFault ==
    \E key \in Keys, fail \in {"none", "Get"} :
        FaultCall("LLen", key, <<>>, LLenF(meta, data, now, key, fail))

DelFault ==
    \E key \in Keys, fail \in {"none", "Get", "Put"} :
        FaultCall("Del", key, <<>>, DelF(meta, data, now, key, fail))

LTrimFault ==
    \E key \in Keys, start \in {0, 1}, stop \in {0, -1},
       fail \in {"none", "Get", "Put", "RPushGet", "RPushWrite"} :
        FaultCall("LTrim", key, <<start, stop>>,
                  LTrimF(meta, data, now, key, start, stop, fail))

RPoplpushFault ==
    \E source \in Keys, destination \in Keys,
       fail \in {"none", "Get", "GetData", "DestGet", "Write"} :
        FaultCall("RPoplpush", source, <<destination>>,
                  RPoplpushF(meta, data, now, source, destination, fail))

FaultNext ==
    \/ RPushFault
    \/ LPopFault
    \/ LLenFault
    \/ DelFault
    \/ LTrimFault
    \/ RPoplpushFault

FaultSpec == FaultInit /\ [][FaultNext]_vars

(* C13: when a backend call of an operation fails, the operation returns     *)
(* the error and both column families hold what they held before the         *)
(* operation started; no operation, LTrim included, commits one write and    *)
(* fails another.                                                            *)
C13_NoPartialCommit ==
    hist.failed => /\ last.status = "IOError"
                   /\ meta = hist.before.meta
                   /\ data = hist.before.data

\* LTrim has returned the error of its RPush after its Put emptied a list of
\* two elements
C13_Witness ==
    /\ hist.failed
    /\ last.op = "LTrim"
    /\ last.status = "IOError"
    /\ Len(ListOf(hist.before.meta, hist.before.data, now, last.key)) = 2
    /\ ListOf(meta, data, now, last.key) = <<>>
    /\ meta # hist.before.meta

-----------------------------------------------------------------------------
(* Compaction.  Open binds a filter factory to each column family; during    *)
(* a background compaction the backend hands records to the filters and      *)
(* removes the ones they drop.                                               *)

\* the meta filter drops a stale meta record
MetaFilter ==
    \E key \in DOMAIN meta :
        /\ IsStale(meta[key], now)
        /\ meta' = DeleteFn(meta, key)
        /\ UNCHANGED <<data, now, last, nops, th, lock, hist>>

\* the data filter drops a record whose meta is absent, stale, of another
\* version, or whose index is outside the cursors
DataFilterDrops(m, t, dk) ==
    IF ~Found(m, dk[1]) THEN TRUE
    ELSE LET pm == m[dk[1]]
         IN  pm.version # dk[2] \/ IsStale(pm, t)
             \/ dk[3] <= pm.left_index \/ dk[3] >= pm.right_index

DataFilter ==
    \E dk \in DOMAIN data :
        /\ DataFilterDrops(meta, now, dk)
        /\ data' = DeleteFn(data, dk)
        /\ UNCHANGED <<meta, now, last, nops, th, lock, hist>>

CompactNext ==
    \/ Next
    \/ MetaFilter
    \/ DataFilter

SpecCompact == Init /\ [][CompactNext]_vars

\* the data records stored under key, of any version
RecordsOf(d, key) == {dk \in DOMAIN d : dk[1] = key}

\* the elements of a sequence
Elements(s) == {s[i] : i \in 1 .. Len(s)}

\* the most recent write invalidated the list of key
JustInvalidated(key) ==
    /\ last.key = key
    /\ last.status = "OK"
    /\ \/ last.op = "Del"
       \/ last.op = "Expire" /\ last.arg[1] <= 0

(* C14: once Del or Expire with ttl <= 0 has succeeded on a live list, LLen,  *)
(* LIndex, LRange, LPop and RPop return NotFound; the next LPush or RPush    *)
(* succeeds under a higher version, LRange(0, -1) then returns exactly the   *)
(* pushed values, and no read after the push returns an element that was     *)
(* stored before the invalidation.                                           *)
C14_InvalidatedStaysGone ==
    \A key \in Keys :
        JustInvalidated(key) =>
            /\ LLen(meta, data, now, key).status = "NotFound"
            /\ LPop(meta, data, now, key).status = "NotFound"
            /\ RPop(meta, data, now, key).status = "NotFound"
            /\ \A i \in IndexArgs : LIndex(meta, data, now, key, i).status = "NotFound"
            /\ \A i \in IndexArgs, j \in IndexArgs :
                  LRange(meta, data, now, key, i, j).status = "NotFound"
            /\ \A values \in PushValues \ {<<>>}, side \in {"L", "R"} :
                  LET r == IF side = "L" THEN LPush(meta, data, now, key, values)
                           ELSE RPush(meta, data, now, key, values)
                  IN  /\ r.status = "OK"
                      /\ Found(meta, key) => r.meta[key].version > meta[key].version
                      /\ RangeAll(r, now, key)
                            = Out(IF side = "L" THEN Reverse(values) ELSE values)
                      /\ \A i \in IndexArgs :
                            LET x == LIndex(r.meta, r.data, now, key, i)
                            IN  x.status = "OK" => x.ret[1] \in Elements(values)
                      /\ LPop(r.meta, r.data, now, key).ret[1] \in Elements(values)
                      /\ RPop(r.meta, r.data, now, key).ret[1] \in Elements(values)
                      /\ \A i \in IndexArgs, j \in IndexArgs :
                            LET x == LRange(r.meta, r.data, now, key, i, j)
                            IN  x.status = "OK" => Elements(x.ret[1]) \subseteq Elements(values)

\* Del emptied a list of two elements, the meta filter removed its meta
\* record, and the two data records are still stored
C14_Witness ==
    \E key \in Keys :
        /\ JustInvalidated(key)
        /\ last.op = "Del"
        /\ ~Found(meta, key)
        /\ Cardinality(RecordsOf(data, key)) = 2

\* the most recent write gave the list of key a time to live
JustExpired(key) ==
    /\ last.key = key
    /\ last.status = "OK"
    /\ last.op = "Expire"
    /\ last.arg[1] > 0

\* the time to live that the most recent write gave has run out: the meta
\* record says so, or the meta filter has dropped it for that
Expired(key) == Found(meta, key) => meta[key].timestamp <= now

\* LLen, LIndex, LRange, LPop and RPop all return NotFound
ReadsNotFound(m, d, t, key) ==
    /\ LLen(m, d, t, key).status = "NotFound"
    /\ LPop(m, d, t, key).status = "NotFound"
    /\ RPop(m, d, t, key).status = "NotFound"
    /\ \A i \in IndexArgs : LIndex(m, d, t, key, i).status = "NotFound"
    /\ \A i \in IndexArgs, j \in IndexArgs : LRange(m, d, t, key, i, j).status = "NotFound"

\* every element that LIndex, LRange, LPop or RPop returns is one of values
ReadsOnly(m, d, t, key, values) ==
    /\ \A i \in IndexArgs :
          LET x == LIndex(m, d, t, key, i)
          IN  x.status = "OK" => x.ret[1] \in Elements(values)
    /\ \A i \in IndexArgs, j \in IndexArgs :
          LET x == LRange(m, d, t, key, i, j)
          IN  x.status = "OK" => Elements(x.ret[1]) \subseteq Elements(values)
    /\ LET x == LPop(m, d, t, key) IN x.status = "OK" => x.ret[1] \in Elements(values)
    /\ LET x == RPop(m, d, t, key) IN x.status = "OK" => x.ret[1] \in Elements(values)

(* C15: Expire(k, ttl) with ttl > 0 at time t on a live list leaves the list  *)
(* as it is and readable while now < t + ttl; from now = t + ttl on LLen,    *)
(* LIndex, LRange, LPop and RPop return NotFound, RPush(k, [w]) returns 1,   *)
(* LRange(k, 0, -1) is then [w], and no read returns an expired element.     *)
C15_ExpiryAtDeadline ==
    \A key \in Keys :
        /\ Live(meta, now, key) =>
              \A ttl \in 1 .. MaxTime :
                  LET r == Expire(meta, data, now, key, ttl)
                  IN  /\ r.status = "OK"
                      /\ \A t2 \in now .. now + ttl - 1 :
                            /\ ListOf(r.meta, r.data, t2, key) = ListOf(meta, data, now, key)
                            /\ RangeAll(r, t2, key) = Out(ListOf(meta, data, now, key))
                            /\ LLen(r.meta, r.data, t2, key).ret
                                  = Out(Len(ListOf(meta, data, now, key)))
                      /\ \A t2 \in now + ttl .. now + ttl + 1 :
                            ReadsNotFound(r.meta, r.data, t2, key)
        /\ (JustExpired(key) /\ Expired(key)) =>
              /\ ReadsNotFound(meta, data, now, key)
              /\ \A w \in Payloads :
                    LET p == RPush(meta, data, now, key, <<w>>)
                    IN  /\ p.status = "OK"
                        /\ p.ret = Out(1)
                        /\ RangeAll(p, now, key) = Out(<<w>>)
                        /\ ReadsOnly(p.meta, p.data, now, key, <<w>>)

\* the time to live of a list of two elements has run out, the meta filter
\* has removed its meta record, and the two data records are still stored
C15_Witness ==
    \E key \in Keys :
        /\ JustExpired(key)
        /\ now = 2
        /\ ~Found(meta, key)
        /\ Cardinality(RecordsOf(data, key)) = 2

(* C16: the version of a key never decreases: a push or an RPoplpush that    *)
(* creates the list again, after it went stale or after the meta filter      *)
(* removed its stale meta record, stores it under a version that is not      *)
(* below the stored one and above that of every data record the key still    *)
(* has.                                                                      *)
C16_VersionGrows ==
    \A key \in Keys, values \in PushValues \ {<<>>}, source \in Keys :
        \A r \in {LPush(meta, data, now, key, values),
                  RPush(meta, data, now, key, values),
                  RPoplpush(meta, data, now, source, key)} :
            (source # key /\ r.status = "OK" /\ ~Live(meta, now, key)) =>
                /\ Found(meta, key) => r.meta[key].version >= meta[key].version
                /\ \A dk \in RecordsOf(data, key) : r.meta[key].version > dk[2]

\* the meta filter has removed the meta record of a key whose data records
\* of version 1 are still stored, and an RPush stores the list under version 1
C16_Witness ==
    \E key \in Keys :
        /\ ~Found(meta, key)
        /\ \E dk \in RecordsOf(data, key) : dk[2] = 1
        /\ RPush(meta, data, now, key, <<<<1>>>>).meta[key].version = 1

(* C17: LPushx and RPushx on a missing or stale key return NotFound and      *)
(* leave both column families as they are; on a live list they return what   *)
(* LPush and RPush of the one value return, the new length, and leave the    *)
(* store that LPush and RPush leave.                                         *)
C17_PushxIsPush ==
    \A key \in Keys, value \in Payloads :
        LET lx == LPushx(meta, data, now, key, value)
            rx == RPushx(meta, data, now, key, value)
            n  == Len(ListOf(meta, data, now, key))
        IN  IF Live(meta, now, key)
            THEN /\ lx = LPush(meta, data, now, key, <<value>>)
                 /\ rx = RPush(meta, data, now, key, <<value>>)
                 /\ lx.status = "OK" /\ lx.ret = Out(n + 1)
                 /\ rx.status = "OK" /\ rx.ret = Out(n + 1)
            ELSE /\ lx.status = "NotFound" /\ lx.meta = meta /\ lx.data = data
                 /\ rx.status = "NotFound" /\ rx.meta = meta /\ rx.data = data

\* an LPushx has put its value at the head of a live list and returned the
\* new length, while the other key is still missing
C17_Witness ==
    /\ last.op = "LPushx"
    /\ last.status = "OK"
    /\ Len(ListOf(meta, data, now, last.key)) >= 2
    /\ last.ret = Out(Len(ListOf(meta, data, now, last.key)))
    /\ Head(ListOf(meta, data, now, last.key)) = last.arg[1]
    /\ \E key \in Keys : ~Found(meta, key)

(* C18: LLen returns OK and the number of elements of a live list, and       *)
(* returns NotFound with len set to 0 when the key is stale and when the     *)
(* key is missing.                                                           *)
C18_LLen ==
    \A key \in Keys :
        LET r == LLen(meta, data, now, key)
        IN  IF Live(meta, now, key)
            THEN r.status = "OK" /\ r.ret = Out(Len(ListOf(meta, data, now, key)))
            ELSE r.status = "NotFound" /\ r.ret = Out(0)

\* one key holds a live list, the other key is missing
C18_Witness ==
    \E key \in Keys, other \in Keys :
        /\ Live(meta, now, key)
        /\ LLen(meta, data, now, key).ret = Out(2)
        /\ ~Found(meta, other)
        /\ LLen(meta, data, now, other).status = "NotFound"

(* C19: when the scheduler keeps running the threads, every call returns:   *)
(* RPoplpush(a, b), RPoplpush(b, a), RPoplpush(a, a) and the single-key      *)
(* calls take their locks over the sorted set of distinct keys, so no        *)
(* thread waits for a lock whose holder waits for a lock of the first.       *)
C19_AllReturn == <>AllDone

\* RPoplpush(1, 2) and RPoplpush(2, 1), made at the same time, have both
\* returned an element
C19_Witness ==
    /\ AllDone
    /\ \E t \in Threads, u \in Threads :
          /\ th[t].op = [op |-> "RPoplpush", key |-> 1, arg |-> <<2>>]
          /\ th[u].op = [op |-> "RPoplpush", key |-> 2, arg |-> <<1>>]
          /\ th[t].status = "OK"
          /\ th[u].status = "OK"

\* LIndex of thread t has returned the payload at the requested position of
\* the list L
ReturnedFrom(t, L) ==
    LET pos == FromHead(Len(L), th[t].op.arg[1])
    IN  /\ pos \in 0 .. Len(L) - 1
        /\ th[t].ret = Out(L[pos + 1])

(* C20: LIndex takes no lock and reads the meta record and the data record   *)
(* from one snapshot: run at the same time as the mutators of its key, it    *)
(* returns NotFound or the payload at the requested position of the list     *)
(* in one state committed during the call.                                   *)
C20_OneCommittedState ==
    \A t \in Threads :
        (th[t].op.op = "LIndex" /\ Done(t)) =>
            \/ th[t].status = "NotFound"
            \/ /\ th[t].status = "OK"
               /\ \E L \in th[t].window : ReturnedFrom(t, L)

\* an LIndex has returned the payload of its snapshot after another call
\* committed a state in which that position holds another payload or none
C20_Witness ==
    \E t \in Threads :
        /\ th[t].op.op = "LIndex"
        /\ Done(t)
        /\ th[t].status = "OK"
        /\ Cardinality(th[t].window) >= 2
        /\ ReturnedFrom(t, ListOf(th[t].snap.meta, th[t].snap.data, now, th[t].op.key))
        /\ ~ReturnedFrom(t, ListOf(meta, data, now, th[t].op.key))

-----------------------------------------------------------------------------
\* how many elements of s equal x
Occurrences(s, x) == Cardinality({i \in 1 .. Len(s) : s[i] = x})

(* C21: the pivot match of LInsert and the target match of LRem are          *)
(* full-length byte equality: two payloads match iff they are the same       *)
(* bytes, so LInsert finds a pivot iff the list holds that payload, and      *)
(* LRem(0, v) removes as many elements as equal v; a payload with an         *)
(* embedded zero byte matches no payload that only shares its prefix.        *)
C21_ByteEquality ==
    /\ \A a \in Needles, b \in Needles : StrcmpEq(a, b) <=> a = b
    /\ \A key \in Keys, pivot \in Needles :
          LET L == ListOf(meta, data, now, key)
          IN  L # <<>> =>
                /\ (LInsert(meta, data, now, key, "Before", pivot, <<1>>).status = "OK")
                      <=> pivot \in Elements(L)
                /\ LRem(meta, data, now, key, 0, pivot).ret = Out(Occurrences(L, pivot))

\* a list holds the payload <<2, 0>> and not the payload <<2>>, and LInsert
\* with the pivot <<2>> finds a pivot in it
C21_Witness ==
    \E key \in Keys :
        /\ <<2, 0>> \in Elements(ListOf(meta, data, now, key))
        /\ <<2>> \notin Elements(ListOf(meta, data, now, key))
        /\ LInsert(meta, data, now, key, "Before", <<2>>, <<1>>).status = "OK"
        /\ LRem(meta, data, now, key, 0, <<2>>).ret = Out(1)

-----------------------------------------------------------------------------
(* C22: LRem(k, 0, v) is idempotent: on every live list and for every v, a   *)
(* second LRem(k, 0, v) right after the first removes nothing, returns 0     *)
(* with NotFound and leaves the meta and the data column family as the       *)
(* first call left them, so the list after two calls is the list after one.  *)
C22_RemTwice ==
    \A key \in Keys, value \in Needles :
        ListOf(meta, data, now, key) # <<>> =>
            LET once  == LRem(meta, data, now, key, 0, value)
                twice == LRem(once.meta, once.data, now, key, 0, value)
            IN  /\ twice.status = "NotFound"
                /\ twice.ret = Out(0)
                /\ twice.meta = once.meta
                /\ twice.data = once.data
                /\ ListOf(twice.meta, twice.data, now, key)
                      = ListOf(once.meta, once.data, now, key)

\* an LRem with count 0 has just removed elements and left others, and the
\* same LRem on the list it left finds nothing
C22_Witness ==
    /\ last.op = "LRem"
    /\ last.arg[1] = 0
    /\ last.ret \in {Out(c) : c \in 1 .. MaxPush}
    /\ ListOf(meta, data, now, last.key) # <<>>
    /\ LRem(meta, data, now, last.key, 0, last.arg[2]).status = "NotFound"

-----------------------------------------------------------------------------
(* C23: RPoplpush writes its output element only after its write batch has   *)
(* committed, with source = destination and with source # destination: a    *)
(* call that returns an error returns the empty element, and a call whose    *)
(* final Write failed has left the element empty and both column families    *)
(* as they were.                                                             *)
C23_ElementAfterCommit ==
    last.op = "RPoplpush" =>
        /\ last.ret # Out(<<>>) => last.status = "OK"
        /\ hist.failed =>
              /\ last.status = "IOError"
              /\ last.ret = Out(<<>>)
              /\ meta = hist.before.meta
              /\ data = hist.before.data

\* an RPoplpush with source = destination on a list of two or more elements
\* whose final Write failed: nothing was written and the element is set
C23_Witness ==
    /\ last.op = "RPoplpush"
    /\ last.arg[1] = last.key
    /\ hist.failed
    /\ Len(ListOf(hist.before.meta, hist.before.data, now, last.key)) >= 2
    /\ meta = hist.before.meta
    /\ data = hist.before.data
    /\ last.ret # Out(<<>>)

-----------------------------------------------------------------------------
\* the meta value the loop of LPush / RPush starts from: the stored one, the
\* reinitialised one when it is stale, a new one when the key is missing
PushStart(m, t, key, n) ==
    IF Found(m, key)
    THEN IF IsStale(m[key], t) THEN InitialMetaValue(m[key]) ELSE m[key]
    ELSE UpdateVersion(ListsMetaValue(n))

(* C24: for each pushed value, LPush writes the value at the current         *)
(* left_index and then decrements left_index, and RPush writes the value at  *)
(* the current right_index and then increments right_index: the i-th value   *)
(* of an LPush lies i - 1 slots below the left_index the push started from,  *)
(* the i-th value of an RPush i - 1 slots above the starting right_index,    *)
(* and the cursor ends n slots away, one slot beyond the last value written. *)
C24_PushCursor ==
    \A key \in Keys, values \in PushValues :
        LET pm0 == PushStart(meta, now, key, Len(values))
            n   == Len(values)
            lp  == LPush(meta, data, now, key, values)
            rp  == RPush(meta, data, now, key, values)
        IN  /\ \A i \in 1 .. n :
                  LET dk == ListsDataKey(key, pm0.version, pm0.left_index - (i - 1))
                  IN  HasData(lp.data, dk) /\ lp.data[dk] = values[i]
            /\ lp.meta[key].left_index = pm0.left_index - n
            /\ \A i \in 1 .. n :
                  LET dk == ListsDataKey(key, pm0.version, pm0.right_index + (i - 1))
                  IN  HasData(rp.data, dk) /\ rp.data[dk] = values[i]
            /\ rp.meta[key].right_index = pm0.right_index + n

\* the statement with LPush decrementing first: the i-th value of an LPush
\* lies at the left_index reached after i decrements
C24_PushAtNewLeftIndex ==
    \A key \in Keys, values \in PushValues :
        LET pm0 == PushStart(meta, now, key, Len(values))
            n   == Len(values)
            lp  == LPush(meta, data, now, key, values)
            rp  == RPush(meta, data, now, key, values)
        IN  /\ \A i \in 1 .. n :
                  LET dk == ListsDataKey(key, pm0.version, pm0.left_index - i)
                  IN  HasData(lp.data, dk) /\ lp.data[dk] = values[i]
            /\ lp.meta[key].left_index = pm0.left_index - n
            /\ \A i \in 1 .. n :
                  LET dk == ListsDataKey(key, pm0.version, pm0.right_index + (i - 1))
                  IN  HasData(rp.data, dk) /\ rp.data[dk] = values[i]
            /\ rp.meta[key].right_index = pm0.right_index + n

\* an LPush of two values onto a live list has just returned: the second value
\* lies one slot above the new left_index, the first above it, and the slot
\* at the new left_index holds no record
C24_Witness ==
    /\ last.op = "LPush"
    /\ Len(last.arg[1]) = 2
    /\ Found(meta, last.key)
    /\ meta[last.key].count > 2
    /\ LET pm == meta[last.key]
       IN  /\ data[ListsDataKey(last.key, pm.version, pm.left_index + 1)] = last.arg[1][2]
           /\ data[ListsDataKey(last.key, pm.version, pm.left_index + 2)] = last.arg[1][1]
           /\ ~HasData(data, ListsDataKey(last.key, pm.version, pm.left_index))

-----------------------------------------------------------------------------
\* list_nodes of LInsert: the nodes it reads from one side of the pivot and
\* puts back one slot further out; <<>> when LInsert returns NotFound
LInsertNodes(m, d, t, key, before_or_after, pivot) ==
    IF ~Found(m, key) \/ LInsert(m, d, t, key, before_or_after, pivot, <<1>>).status # "OK"
    THEN <<>>
    ELSE LET pm          == m[key]
             version     == pm.version
             pivot_index == FindPivot(d, Seek(d, ListsDataKey(key, version, pm.left_index + 1)),
                                      pm.left_index + 1, pm.right_index, pivot).pivot_index
             mid_index   == pm.left_index + (pm.right_index - pm.left_index) \div 2
         IN  IF pivot_index <= mid_index
             THEN FirstHalfNodes(d, Seek(d, ListsDataKey(key, version, pm.left_index + 1)),
                                 pm.left_index + 1, pivot_index, before_or_after, <<>>)
             ELSE AfterHalfNodes(d, Seek(d, ListsDataKey(key, version, pivot_index)),
                                 pivot_index, pivot_index, pm.right_index, before_or_after, <<>>)

\* the data records LRem puts back while it rewrites one side of the list;
\* <<>> when LRem returns NotFound
LRemNodes(m, d, t, key, count, value) ==
    IF ~Found(m, key) \/ LRem(m, d, t, key, count, value).status # "OK"
    THEN <<>>
    ELSE LET pm          == m[key]
             rest0       == IF count < 0 THEN 0 - count ELSE count
             version     == pm.version
             start_index == pm.left_index + 1
             stop_index  == pm.right_index - 1
             del_index   ==
                 IF count >= 0
                 THEN CollectForward(d, Seek(d, ListsDataKey(key, version, start_index)),
                                     start_index, stop_index, count, rest0, value, <<>>)
                 ELSE CollectBackward(d, Seek(d, ListsDataKey(key, version, stop_index)),
                                      stop_index, start_index, count, rest0, value, <<>>)
             size == Len(del_index)
             sublist_left_index  == IF count >= 0 THEN del_index[1] ELSE del_index[size]
             sublist_right_index == IF count >= 0 THEN del_index[size] ELSE del_index[1]
             left_part_len  == sublist_right_index - start_index
             right_part_len == stop_index - sublist_left_index
         IN  IF left_part_len <= right_part_len
             THEN RewriteLeft(d, Seek(d, ListsDataKey(key, version, sublist_right_index)),
                              sublist_right_index, start_index, key, version,
                              value, size, sublist_right_index, <<>>)
             ELSE RewriteRight(d, Seek(d, ListsDataKey(key, version, sublist_left_index)),
                               sublist_left_index, stop_index, key, version,
                               value, size, sublist_left_index, <<>>)

Smaller(a, b) == IF a <= b THEN a ELSE b

\* the position of the pivot LInsert finds in s, 0 when it finds none
PivotAt(s, pivot) ==
    IF \E i \in 1 .. Len(s) : StrcmpEq(s[i], pivot)
    THEN CHOOSE i \in 1 .. Len(s) :
             StrcmpEq(s[i], pivot) /\ \A j \in 1 .. (i - 1) : ~StrcmpEq(s[j], pivot)
    ELSE 0

\* the positions of s that LRem(count, value) removes
Victims(s, count, value) ==
    LET hits == {i \in 1 .. Len(s) : StrcmpEq(s[i], value)}
    IN  IF count = 0 THEN hits
        ELSE IF count > 0
        THEN {i \in hits : Cardinality({j \in hits : j < i}) < count}
        ELSE {i \in hits : Cardinality({j \in hits : j > i}) < 0 - count}

\* LInsert relocates the records of the shorter side of the insertion point
InsertShorterSide ==
    \A key \in Keys, before_or_after \in BeforeOrAfter, pivot \in Needles :
        LET L == ListOf(meta, data, now, key)
            n == Len(L)
            p == PivotAt(L, pivot)
            left_shift  == IF before_or_after = "Before" THEN p - 1 ELSE p
            right_shift == IF before_or_after = "Before" THEN n - p + 1 ELSE n - p
        IN  (Hole \notin Elements(L) /\ p # 0) =>
                Len(LInsertNodes(meta, data, now, key, before_or_after, pivot))
                    = Smaller(left_shift, right_shift)

\* LRem rewrites the shorter of the segment from the head to the victim
\* furthest from the head and the segment from the victim furthest from the
\* tail to the tail
RemShorterSide ==
    \A key \in Keys, count \in IndexArgs, value \in Needles :
        LET L == ListOf(meta, data, now, key)
            n == Len(L)
            V == Victims(L, count, value)
            from_head == Cardinality({i \in 1 .. n : i \notin V /\ \E v \in V : i < v})
            to_tail   == Cardinality({i \in 1 .. n : i \notin V /\ \E v \in V : i > v})
        IN  (Hole \notin Elements(L) /\ V # {}) =>
                Len(LRemNodes(meta, data, now, key, count, value))
                    = Smaller(from_head, to_tail)

(* C25: LInsert and LRem always rewrite the shorter of the two sides: for    *)
(* every list, pivot and marker LInsert relocates as many records as the     *)
(* smaller of its left-shift and its right-shift count, and LRem rewrites    *)
(* the smaller of the segment head-to-outermost-victim and the segment       *)
(* innermost-victim-to-tail.                                                 *)
C25_ShorterSide == InsertShorterSide /\ RemShorterSide

\* a list of three elements in which LInsert after the middle element
\* relocates the two records on its left, with one record on its right
C25_Witness ==
    \E key \in Keys, pivot \in Payloads :
        LET L == ListOf(meta, data, now, key)
        IN  /\ Len(L) = 3
            /\ Hole \notin Elements(L)
            /\ PivotAt(L, pivot) = 2
            /\ Len(LInsertNodes(meta, data, now, key, "After", pivot)) = 2
            /\ LInsert(meta, data, now, key, "After", pivot, <<1>>).meta[key].left_index
                   = meta[key].left_index - 1

-----------------------------------------------------------------------------
(* C26: in every reachable state and for every key whose meta record is not  *)
(* stale, every index strictly between left_index and right_index has a data *)
(* record under the key and its current version: the list has no hole, and   *)
(* an iterator placed at left_index + 1 and advanced count times reads       *)
(* exactly the live elements, in order.                                      *)
C26_NoHole ==
    \A key \in Keys :
        Live(meta, now, key) =>
            LET pm == meta[key]
                first == ListsDataKey(key, pm.version, pm.left_index + 1)
            IN  /\ \A i \in (pm.left_index + 1) .. (pm.right_index - 1) :
                      HasData(data, ListsDataKey(key, pm.version, i))
                /\ ScanForward(data, Seek(data, first), 1, pm.count, <<>>)
                      = ListOf(meta, data, now, key)
                /\ Len(ListOf(meta, data, now, key)) = pm.count

\* LInsert, LRem or RPoplpush has just rewritten a list that still holds two
\* or more elements and has records of its version outside its cursors
C26_Witness ==
    /\ last.op \in {"LInsert", "LRem", "RPoplpush"}
    /\ last.status = "OK"
    /\ Live(meta, now, last.key)
    /\ meta[last.key].count >= 2
    /\ Orphans(meta, data, last.key) # {}

-----------------------------------------------------------------------------
(* Isolation of the lists from one another *)

\* the calls on key that the comparison of two stores makes
CallsOn(key) ==
    {[op |-> "LPush", key |-> key, arg |-> <<v>>] : v \in {<<<<1>>>>, <<<<1>>, <<2, 0>>>>}}
    \cup {[op |-> "RPush", key |-> key, arg |-> <<v>>] : v \in {<<<<1>>>>, <<<<1>>, <<2, 0>>>>}}
    \cup {[op |-> o, key |-> key, arg |-> <<>>] : o \in {"LPop", "RPop", "LLen", "Del"}}
    \cup {[op |-> o, key |-> key, arg |-> <<start, stop>>] :
              o \in {"LRange", "LTrim"}, start \in {0, 1, -2}, stop \in {-1, 1, MaxArg}}
    \cup {[op |-> "LIndex", key |-> key, arg |-> <<i>>] : i \in IndexArgs}
    \cup {[op |-> "LSet", key |-> key, arg |-> <<i, <<1>>>>] : i \in {0, -1, MaxArg}}
    \cup {[op |-> "LInsert", key |-> key, arg |-> <<b, p, <<1>>>>] :
              b \in BeforeOrAfter, p \in Needles}
    \cup {[op |-> "LRem", key |-> key, arg |-> <<c, v>>] : c \in {0, 1, -1}, v \in Needles}
    \cup {[op |-> o, key |-> key, arg |-> <<<<1>>>>] : o \in {"LPushx", "RPushx"}}
    \cup {[op |-> "Expire", key |-> key, arg |-> <<ttl>>] : ttl \in TTLs}
    \cup {[op |-> "RPoplpush", key |-> key, arg |-> <<k2>>] : k2 \in Keys}

\* a call as a whole, for every operation
Run(o, m, d, t) ==
    CASE o.op = "RPop"   -> RPop(m, d, t, o.key)
      [] o.op = "LSet"   -> LSet(m, d, t, o.key, o.arg[1], o.arg[2])
      [] o.op = "LPushx" -> LPushx(m, d, t, o.key, o.arg[1])
      [] o.op = "RPushx" -> RPushx(m, d, t, o.key, o.arg[1])
      [] o.op = "Expire" -> Expire(m, d, t, o.key, o.arg[1])
      [] OTHER           -> Apply(o, m, d, t)

\* the keys a call names
KeysOf(o) == IF o.op = "RPoplpush" THEN {o.key, o.arg[1]} ELSE {o.key}

\* the records that make up the live lists of ks: slots inside the cursors,
\* under the current version of a meta record that is not stale
LiveRecords(m, d, t, ks) ==
    {dk \in DOMAIN d : /\ dk[1] \in ks
                       /\ Live(m, t, dk[1])
                       /\ dk[2] = m[dk[1]].version
                       /\ dk[3] > m[dk[1]].left_index
                       /\ dk[3] < m[dk[1]].right_index}

\* the records of ks under their current version, inside the cursors or not
CurrentRecords(m, d, ks) ==
    {dk \in DOMAIN d : dk[1] \in ks /\ Found(m, dk[1]) /\ dk[2] = m[dk[1]].version}

\* the store with the meta records of ks and the data records keep, and
\* nothing else
Narrowed(m, d, ks, keep) ==
    [meta |-> [k \in (DOMAIN m) \cap ks |-> m[k]],
     data |-> [dk \in keep |-> d[dk]]]

\* the call o gives, on the store s, the result and the lists it gives on the
\* store (m, d)
SameOutcome(o, m, d, t, s) ==
    LET r == Run(o, m, d, t)
        q == Run(o, s.meta, s.data, t)
    IN  /\ r.status = q.status
        /\ r.ret = q.ret
        /\ \A k \in KeysOf(o) :
              ListOf(r.meta, r.data, t, k) = ListOf(q.meta, q.data, t, k)

\* the call o on the store (m, d) leaves the records of the keys it does not
\* name as they were
OthersUntouched(o, m, d, t) ==
    LET r == Run(o, m, d, t)
    IN  /\ \A k \in Keys \ KeysOf(o) :
              /\ Found(r.meta, k) <=> Found(m, k)
              /\ Found(m, k) => r.meta[k] = m[k]
        /\ \A dk \in (DOMAIN d) \cup (DOMAIN r.data) :
              dk[1] \notin KeysOf(o) =>
                  /\ HasData(d, dk) /\ HasData(r.data, dk)
                  /\ r.data[dk] = d[dk]

(* C27: lists are isolated by key: the result and the resulting content of   *)
(* any operation on a key depend only on the live content of that key (and   *)
(* of the destination for RPoplpush): the call gives the same status, the    *)
(* same output and the same new list on the store that holds nothing but     *)
(* the meta records and the live records of the keys it names, and it        *)
(* leaves the meta and data records of every other key unchanged.            *)
C27_Isolation ==
    \A key \in Keys :
        \A o \in CallsOn(key) :
            /\ SameOutcome(o, meta, data, now,
                           Narrowed(meta, data, KeysOf(o),
                                    LiveRecords(meta, data, now, KeysOf(o))))
            /\ OthersUntouched(o, meta, data, now)

\* the same with the narrowed store keeping every record of the current
\* version of the keys the call names: only the records of other keys and of
\* older versions are taken away
OtherKeysIsolation ==
    \A key \in Keys :
        \A o \in CallsOn(key) :
            /\ SameOutcome(o, meta, data, now,
                           Narrowed(meta, data, KeysOf(o),
                                    CurrentRecords(meta, data, KeysOf(o))))
            /\ OthersUntouched(o, meta, data, now)

\* a list of one element next to a list of another key: LTrim(-2, -1), whose
\* window is the whole list, leaves it with two elements, the second one read
\* from the records of the other key
C27_Witness ==
    \E key \in Keys, other \in Keys :
        LET r == LTrim(meta, data, now, key, -2, -1)
        IN  /\ other # key
            /\ Len(ListOf(meta, data, now, key)) = 1
            /\ Len(ListOf(meta, data, now, other)) = 1
            /\ Len(ListOf(r.meta, r.data, now, key)) = 2
            /\ ListOf(r.meta, r.data, now, key)[2] = ListOf(meta, data, now, other)[1]
            /\ RecordsOf(r.data, other) = RecordsOf(data, other)

=============================================================================
